---- MODULE Spec2Model ----
(***************************************************************************)
(* Precision-Agriculture-Platform: the zone-delineation core of            *)
(* src/src/zones.py as a state machine.                                    *)
(*                                                                         *)
(*   IDWInterpolator   fit / predict                    (SpecIDW)          *)
(*   ZoneDelineator    fit_predict, _find_optimal_zones (SpecZD)           *)
(*   delineate_management_zones                         (SpecPipe)         *)
(*                                                                         *)
(* Conventions.                                                            *)
(*  - An Optional value is a sequence: <<>> is None, <<v>> is v.           *)
(*  - A float is a fixed-point integer; NaN is <<>> and a finite float f   *)
(*    is <<f>> where the two have to be told apart.  Yields are whole      *)
(*    numbers; an interpolated value is counted in steps of 1/Quantum.     *)
(*  - numpy arrays are sequences; positions are 1-based, labels and zone   *)
(*    ids keep the 0-based values of the code.                             *)
(*  - A call's outcome is a record: kind "return" or "raise", the          *)
(*    exception class and message when it raised.                          *)
(***************************************************************************)
EXTENDS Integers, Sequences, FiniteSets, TLC

(*************************** bounds of the model ***************************)
\* coordinates of the interpolator's points and queries are 0..GridMax
GridMax == 1
\* longest points / values array handed to IDWInterpolator.fit
MaxPts == 2
\* longest query batch handed to IDWInterpolator.predict
MaxQueries == 2
\* max_neighbors is drawn from 1..MaxNeighbors
MaxNeighbors == 3
\* fit calls on one interpolator
MaxFits == 1
\* longest array handed to ZoneDelineator.fit_predict, with values 0..ZValMax
MaxVals == 4
ZValMax == 3
\* n_zones, min_zones and max_zones are drawn from 1..MaxZones
MaxZones == 3
\* fit_predict calls on one delineator
MaxZDCalls == 1
\* rounds of Lloyd's iteration (max_iter of KMeans)
LloydCap == 8
\* positions of the process-wide numpy random stream
RngMod == 2
\* most harvest points handed to delineate_management_zones
MaxHarvest == 3
\* repetitions of one delineate_management_zones call
MaxReruns == 1
\* coordinates of the bounds handed to interpolate_grid: 0..BoundMax
BoundMax == 2
\* points of a harvest frame in the calls that vary the reference frame
MaxFrameHarvest == 2
\* rows of a frame handed to the validator or read from a harvest file
MaxIngestRows == 5
\* days the clock of the API can show after the first
MaxDay == 2
\* calls of fit, and of fit_predict, on one instance that is used again
MaxReuse == 2

(**************************** program constants ****************************)
\* np.maximum(distances, 1e-10): the clamp, as (length unit / epsilon)^2.
\* The code's ratio is 10^20; the model's unit is 10 epsilon.
EpsInvSq == 100
\* decimal digits kept of an interpolated float
QuantumDigits == 2

Quantum == 100
\* decimal digits kept of a silhouette coefficient
SQuantumDigits == 3
SQuantum == 1000
\* random_state = 42
SEED == 42
\* IDWInterpolator.__init__ defaults
DefaultPower == 2
DefaultMaxNeighbors == 12
\* ZoneDelineator.__init__ defaults
DefaultMinZones == 2
DefaultMaxZones == 7
\* DataValidator(min_points = 100, yield_range = (0, 200))
\* api.py, the Query constraints of field_id
MinLength == 1
MaxLength == 50

DefaultMinPoints == 100
DefaultYieldMin == 0
DefaultYieldMax == 200
ZVals == 0..ZValMax
Powers == {0, 2, 4}
Vals == {0, 4}
Locs == (0..GridMax) \X (0..GridMax)
\* the harvest points of the pipeline: planar coordinates in metres, yields,
\* grid resolutions and IDW powers
HarvestLocs == {<<0, 0>>, <<1, 0>>, <<4, 2>>}
HarvestYields == {0, 1}
Resolutions == {1, 3}
PipePowers == {0, 2}

VARIABLES idw, idwOut, idwFits, zd, zdOut, zdCalls, npRandom,
          pipeOut, pipePrev, pipeRuns, ingestOut, MOCK_FIELDS, apiOut

varsIDW == <<idw, idwOut, idwFits>>
varsZD == <<zd, zdOut, zdCalls, npRandom>>
varsPipe == <<pipeOut, pipePrev, pipeRuns>>
varsApi == <<MOCK_FIELDS, apiOut>>
vars == <<idw, idwOut, idwFits, zd, zdOut, zdCalls, npRandom,
          pipeOut, pipePrev, pipeRuns, ingestOut, MOCK_FIELDS, apiOut>>

(******************************** helpers **********************************)
None == <<>>
Some(v) == <<v>>
Abs(x) == IF x < 0 THEN 0 - x ELSE x
Min2(a, b) == IF a <= b THEN a ELSE b
Max2(a, b) == IF a >= b THEN a ELSE b

RECURSIVE GCD(_, _)
GCD(a, b) == IF b = 0 THEN a ELSE GCD(b, a % b)

LCM(a, b) == (a \div GCD(a, b)) * b

RECURSIVE SumSeq(_)
SumSeq(s) == IF s = <<>> THEN 0 ELSE Head(s) + SumSeq(Tail(s))

RECURSIVE LcmSeq(_)
LcmSeq(s) == IF s = <<>> THEN 1 ELSE LCM(Head(s), LcmSeq(Tail(s)))

SeqMin(s) == CHOOSE v \in {s[i] : i \in 1..Len(s)} : \A j \in 1..Len(s) : v <= s[j]
SeqMax(s) == CHOOSE v \in {s[i] : i \in 1..Len(s)} : \A j \in 1..Len(s) : v >= s[j]

RECURSIVE IPow(_, _)
IPow(b, e) == IF e = 0 THEN 1 ELSE b * IPow(b, e - 1)

\* floor(Quantum * num / den) by long division, one decimal digit at a time
RECURSIVE Digits(_, _, _)
Digits(r, den, n) ==
    IF n = 0 THEN 0
    ELSE ((10 * r) \div den) * IPow(10, n - 1) + Digits((10 * r) % den, den, n - 1)

Fixed(num, den) == (num \div den) * Quantum + Digits(num % den, den, QuantumDigits)

SeqsUpTo(S, n) == UNION {[1..k -> S] : k \in 0..n}

\* the element of a singleton: {F(x) : x \in {e}} computes e once for F
Only(S) == CHOOSE x \in S : TRUE

Raise(cls, msg) == [kind |-> "raise", cls |-> cls, msg |-> msg, vals |-> <<>>]
Return(vals) == [kind |-> "return", cls |-> "", msg |-> "", vals |-> vals]

(***************************** IDWInterpolator *****************************)
\* __init__: tree and values start as None
IDWNew(power, max_neighbors) ==
    [power |-> power, max_neighbors |-> max_neighbors, tree |-> None, values |-> None]

\* a fit that adds to what the interpolator holds
IDWFitAppend(obj, points, values) ==
    [obj EXCEPT !.tree = Some((IF obj.tree = None THEN <<>> ELSE obj.tree[1]) \o points),
                !.values = Some((IF obj.values = None THEN <<>> ELSE obj.values[1])
                                    \o values)]

\* fit: cKDTree(points) accepts every (n, 2) array, n = 0 included, and the
\* values are stored unchecked
IDWFit(obj, points, values) ==
    [obj EXCEPT !.tree = Some(points), !.values = Some(values)]

FitOutcome(obj, points, values) == Return(<<>>)

Dist2(p, q) == (p[1] - q[1]) * (p[1] - q[1]) + (p[2] - q[2]) * (p[2] - q[2])

\* One neighbour of cKDTree.query: the position in the tree and the squared
\* distance; a missing neighbour has an infinite distance and position n + 1
\* (self.n in the 0-based code).
Neighbour(tree, q, i) == [idx |-> i, inf |-> FALSE, d2 |-> Dist2(tree[i], q)]
Missing(tree) == [idx |-> Len(tree) + 1, inf |-> TRUE, d2 |-> 0]

Nearer(tree, q, i, j) ==
    \/ Dist2(tree[i], q) < Dist2(tree[j], q)
    \/ Dist2(tree[i], q) = Dist2(tree[j], q) /\ i <= j

\* cKDTree.query(q, k): the k nearest points in ascending distance (equal
\* distances in index order), padded with missing neighbours
RECURSIVE KNearestFrom(_, _, _, _)
KNearestFrom(tree, q, k, taken) ==
    IF k = 0 THEN <<>>
    ELSE LET rest == (1..Len(tree)) \ taken IN
         IF rest = {} THEN <<Missing(tree)>> \o KNearestFrom(tree, q, k - 1, taken)
         ELSE LET best == CHOOSE i \in rest : \A j \in rest : Nearer(tree, q, i, j)
              IN  <<Neighbour(tree, q, best)>>
                      \o KNearestFrom(tree, q, k - 1, taken \cup {best})

KNearest(tree, q, k) == KNearestFrom(tree, q, k, {})

\* distances = np.maximum(distances, 1e-10), squared, in units of epsilon^2
ClampedD2(e) == IF e.d2 = 0 THEN 1 ELSE e.d2 * EpsInvSq

\* np.power(distances, power) for an even power
PowD(e, power) == IPow(ClampedD2(e), power \div 2)

\* The rows of the distance matrix.  With k = 1 the query returns 1-d arrays
\* of shape (m,), which "distances.ndim == 1" reshapes to ONE row of m
\* entries; with k > 1 there is one row of k entries per query point.
DistanceRows(tree, grid_points, k) ==
    IF k = 1
    THEN << [j \in 1..Len(grid_points) |-> KNearest(tree, grid_points[j], 1)[1]] >>
    ELSE [j \in 1..Len(grid_points) |-> KNearest(tree, grid_points[j], k)]

\* weights = 1 / distances^power as integers over the row's common
\* denominator: 1/inf^power is 0, and inf^0 is 1
RowWeights(row, power) ==
    LET pd == [i \in 1..Len(row) |-> IF row[i].inf THEN 1 ELSE PowD(row[i], power)]
        L  == LcmSeq(pd)
    IN  [i \in 1..Len(row) |->
            IF row[i].inf THEN (IF power = 0 THEN L ELSE 0) ELSE L \div pd[i]]

\* (weights / weights.sum * values[indices]).sum for one row: 0/0 is NaN,
\* and the sum over an empty row is 0
RowValue(row, power, values) ==
    LET w   == RowWeights(row, power)
        den == SumSeq(w)
        num == SumSeq([i \in 1..Len(row) |-> w[i] * values[row[i].idx]])
    IN  IF Len(row) = 0 THEN Some(0)
        ELSE IF den = 0 THEN None
        ELSE Some(Fixed(num, den))

NotFitted(obj) == obj.tree = None

NotFittedMsg == "Interpolator not fitted. Call fit() first."

\* lines 61-62: what predict does on an interpolator whose tree is None
NotFittedSilent == Return(<<>>)
NotFittedRaise == Raise("ValueError", NotFittedMsg)

\* predict
IDWPredict(obj, grid_points) ==
    IF NotFitted(obj)
    THEN NotFittedRaise
    ELSE LET tree   == obj.tree[1]
             values == obj.values[1]
             k      == Min2(obj.max_neighbors, Len(values))
         IN  IF k = 0
             THEN Raise("ValueError", "cKDTree.query: k")
             ELSE LET rows == DistanceRows(tree, grid_points, k) IN
                  IF \E r \in 1..Len(rows) : \E i \in 1..Len(rows[r]) :
                         rows[r][i].idx > Len(values)
                  THEN Raise("IndexError", "index out of bounds")
                  ELSE Return([r \in 1..Len(rows) |->
                                  RowValue(rows[r], obj.power, values)])

(************************* the interpolator's calls ************************)
NoCall == [op |-> "none", args |-> <<>>, fitted |-> FALSE,
           kind |-> "none", cls |-> "", msg |-> "", vals |-> <<>>]

\* a finished call: its arguments, whether the interpolator was fitted when it
\* was made, and its outcome
Call(op, args, obj, out) ==
    [op |-> op, args |-> args, fitted |-> ~NotFitted(obj),
     kind |-> out.kind, cls |-> out.cls, msg |-> out.msg, vals |-> out.vals]

\* the components a specification does not exercise stay as constructed with
\* their defaults
IdleIDW ==
    /\ idw = IDWNew(DefaultPower, DefaultMaxNeighbors)
    /\ idwOut = NoCall
    /\ idwFits = 0

IdleZD ==
    /\ zd = [n_zones |-> None, min_zones |-> DefaultMinZones,
             max_zones |-> DefaultMaxZones, model |-> None, scaler |-> None,
             optimal_n_zones |-> None]
    /\ zdOut = NoCall
    /\ zdCalls = 0

NoRun == [op |-> "none", args |-> <<>>, kind |-> "none", cls |-> "", msg |-> "",
          vals |-> <<>>]

(******************************* api: the store ****************************)
\* MOCK_FIELDS as the module is imported on the days d1 and d2 (the two calls
\* of datetime.now(), lines 122 and 186: the same day, or midnight between).  A date is the number of its day;
\* areas, yields and scores are kept in tenths; an optional key that a dict
\* does not hold is not in its domain; the reason of a recommendation, a
\* sentence, is left out.
F001 == <<"F", "0", "0", "1">>
F002 == <<"F", "0", "0", "2">>

MockFields(d1, d2) ==
    [short_id \in {F001, F002} |->
        IF short_id = F001
        THEN [field_id |-> "F001-UsinaGuarani-Piracicaba", crop |-> "cana-de-acucar",
              season |-> "2025/26", harvest_number |-> 3, total_area_ha |-> 1505,
              analysis_date |-> d1,
              summary |-> [total_estimated_impact_brl |-> 234500,
                           avg_profitability_score |-> 72],
              zones |-> <<[zone_id |-> "Z001", area_ha |-> 452, avg_yield_t_ha |-> 653,
                           expected_yield_t_ha |-> 800, profitability_score |-> 62,
                           status |-> "warning",
                           recommendation |-> [action |-> "reform", priority |-> "high"],
                           financial_impact |-> [estimated_loss_brl_year |-> 120000,
                                                 reform_cost_brl |-> 15000,
                                                 payback_months |-> 8]],
                          [zone_id |-> "Z002", area_ha |-> 588, avg_yield_t_ha |-> 785,
                           expected_yield_t_ha |-> 800, profitability_score |-> 85,
                           status |-> "optimal",
                           recommendation |-> [action |-> "maintain", priority |-> "low"],
                           financial_impact |-> [estimated_gain_brl_year |-> 85000]],
                          [zone_id |-> "Z003", area_ha |-> 465, avg_yield_t_ha |-> 521,
                           expected_yield_t_ha |-> 800, profitability_score |-> 48,
                           status |-> "critical",
                           recommendation |-> [action |-> "immediate_reform",
                                               priority |-> "critical"],
                           financial_impact |-> [estimated_loss_brl_year |-> 180000,
                                                 reform_cost_brl |-> 18000,
                                                 payback_months |-> 6]]>>]
        ELSE [field_id |-> "F002-UsinaSantaClara-Araraquara", crop |-> "cana-de-acucar",
              season |-> "2025/26", harvest_number |-> 2, total_area_ha |-> 2203,
              analysis_date |-> d2,
              summary |-> [total_estimated_impact_brl |-> 156000,
                           avg_profitability_score |-> 81],
              zones |-> <<[zone_id |-> "Z001", area_ha |-> 1100, avg_yield_t_ha |-> 823,
                           expected_yield_t_ha |-> 850, profitability_score |-> 88,
                           status |-> "optimal",
                           recommendation |-> [action |-> "maintain", priority |-> "low"],
                           financial_impact |-> [estimated_gain_brl_year |-> 145000]],
                          [zone_id |-> "Z002", area_ha |-> 1103, avg_yield_t_ha |-> 752,
                           expected_yield_t_ha |-> 850, profitability_score |-> 74,
                           status |-> "warning",
                           recommendation |-> [action |-> "fertilizer_adjustment",
                                               priority |-> "medium"],
                           financial_impact |-> [estimated_loss_brl_year |-> 68000]]>>]]

\* no request was answered yet
NoRequest == [op |-> "none", args |-> <<>>, status |-> 0, body |-> <<>>, before |-> <<>>]

IdleApi ==
    /\ MOCK_FIELDS = MockFields(0, 0)
    /\ apiOut = NoRequest

IdlePipe ==
    /\ pipeOut = NoRun
    /\ pipePrev = NoRun
    /\ pipeRuns = 0
    /\ ingestOut = NoRun
    /\ IdleApi

InitIDW ==
    /\ idw \in {IDWNew(p, k) : p \in Powers, k \in 1..MaxNeighbors}
    /\ idwOut = NoCall
    /\ idwFits = 0
    /\ IdleZD
    /\ npRandom = 0
    /\ IdlePipe

Fit ==
    /\ idwFits < MaxFits
    /\ \E points \in SeqsUpTo(Locs, MaxPts), values \in SeqsUpTo(Vals, MaxPts) :
          /\ idwOut' = Call("fit", <<points, values>>, idw, FitOutcome(idw, points, values))
          /\ idw' = IDWFit(idw, points, values)
    /\ idwFits' = idwFits + 1
    /\ UNCHANGED <<varsZD, varsPipe, ingestOut, varsApi>>

Predict ==
    /\ \E grid_points \in SeqsUpTo(Locs, MaxQueries) \ {<<>>} :
          idwOut' = Call("predict", <<grid_points>>, idw, IDWPredict(idw, grid_points))
    /\ UNCHANGED <<idw, idwFits>>
    /\ UNCHANGED <<varsZD, varsPipe, ingestOut, varsApi>>

NextIDW == Fit \/ Predict

SpecIDW == InitIDW /\ [][NextIDW]_vars

(****************************** ZoneDelineator *****************************)
\* __init__
ZDNew(n_zones, min_zones, max_zones) ==
    [n_zones |-> n_zones, min_zones |-> min_zones, max_zones |-> max_zones,
     model |-> None, scaler |-> None, optimal_n_zones |-> None]

\* StandardScaler.fit_transform on one column: (x - mean) / std.  The entries
\* are kept as numerators n*x - sum(x) over the common positive denominator
\* n*std (std is replaced by 1 when it is 0, and then every numerator is 0).
ScalerFitTransform(X) == [i \in 1..Len(X) |-> Len(X) * X[i] - SumSeq(X)]

ScalerState(X) == Some([n_samples |-> Len(X), total |-> SumSeq(X)])

\* check_random_state: an int seeds a fresh stream, None uses the process-wide
\* numpy stream g.  A stream is the position at which the walk over the
\* samples starts.
StreamOf(random_state, g) == IF random_state = None THEN g ELSE random_state[1]

\* the samples in the order the stream visits them
Walk(n, s) == [j \in 1..n |-> ((s + j - 1) % n) + 1]

\* k-means++ seeding: centres are samples; a sample whose value is already a
\* centre has probability 0 while an uncovered value is left.  With fewer
\* distinct values than centres some centres coincide, and the clusters of all
\* but the lowest id among them end empty; which ids those are depends on the
\* stream (the chosen samples take the cluster ids in an order rotated by a
\* further draw from it).
Draw(n, s) == s + (s \div n)

RECURSIVE FreshValued(_, _, _)
FreshValued(X, order, seen) ==
    IF order = <<>> THEN <<>>
    ELSE IF X[Head(order)] \in seen THEN FreshValued(X, Tail(order), seen)
    ELSE <<Head(order)>> \o FreshValued(X, Tail(order), seen \cup {X[Head(order)]})

KMeansInit(X, k, s) ==
    LET order == Walk(Len(X), s)
        fresh == FreshValued(X, order, {})
        used  == {fresh[i] : i \in 1..Len(fresh)}
        rest  == SelectSeq(order, LAMBDA i : i \notin used)
        pick  == SubSeq(fresh \o rest, 1, k)
    IN  [j \in 1..k |-> [total |-> X[pick[((j - 1 + Draw(Len(X), s)) % k) + 1]], count |-> 1]]

\* |x - a| < |x - b| for centres a, b kept as total / count
Closer(x, a, b) ==
    Abs(x * a.count - a.total) * b.count < Abs(x * b.count - b.total) * a.count

\* E-step: np.argmin over the distances to the centres, the lowest cluster id
\* among the nearest; ids are 0-based
NearestCentre(x, C) ==
    CHOOSE j \in 0..(Len(C) - 1) :
        /\ \A l \in 0..(Len(C) - 1) : ~Closer(x, C[l + 1], C[j + 1])
        /\ \A l \in 0..(j - 1) : Closer(x, C[j + 1], C[l + 1])

AssignLabels(X, C) == [i \in 1..Len(X) |-> NearestCentre(X[i], C)]

Members(lab, j) == {i \in 1..Len(lab) : lab[i] = j}

RECURSIVE SumOver(_, _)
SumOver(X, S) ==
    IF S = {} THEN 0
    ELSE LET i == CHOOSE i \in S : TRUE IN X[i] + SumOver(X, S \ {i})

\* M-step: a centre is the mean of its cluster; a centre without samples stays
UpdateCentres(X, C, lab) ==
    [j \in 1..Len(C) |->
        IF Members(lab, j - 1) = {} THEN C[j]
        ELSE [total |-> SumOver(X, Members(lab, j - 1)),
              count |-> Cardinality(Members(lab, j - 1))]]

\* Lloyd's iteration to a fixed point of the labels, at most LloydCap rounds
RECURSIVE Lloyd(_, _, _, _)
Lloyd(X, C, lab, fuel) ==
    LET newC   == UpdateCentres(X, C, lab)
        newLab == AssignLabels(X, newC)
    IN  IF newLab = lab \/ fuel = 0 THEN newLab
        ELSE Lloyd(X, newC, newLab, fuel - 1)

\* KMeans(n_clusters = k, random_state = ..., n_init = 10).fit_predict(X): the
\* labels of one seeded run (the n_init restarts draw from the same stream)
KMeansFitPredict(X, k, s) ==
    IF Len(X) < k
    THEN Raise("ValueError", "n_samples should be >= n_clusters")
    ELSE LET C0 == KMeansInit(X, k, s)
         IN  Return(Lloyd(X, C0, AssignLabels(X, C0), LloydCap))

LabelSet(lab) == {lab[i] : i \in 1..Len(lab)}

\* floor(SQuantum * num / den), den > 0
FixedS(num, den) == (num \div den) * SQuantum + Digits(num % den, den, SQuantumDigits)

\* sum of |X[i] - X[j]| over j in S
RECURSIVE DistSum(_, _, _)
DistSum(X, i, S) ==
    IF S = {} THEN 0
    ELSE LET j == CHOOSE j \in S : TRUE IN Abs(X[i] - X[j]) + DistSum(X, i, S \ {j})

\* silhouette_samples for sample i: (b - a) / max(a, b) with a the mean
\* distance to the rest of its cluster and b the least mean distance to another
\* cluster; 0 for a cluster of one sample and for 0/0.  a = an/ad, b = bn/bd.
SilhouetteSample(X, lab, i) ==
    LET own    == Members(lab, lab[i])
        others == LabelSet(lab) \ {lab[i]}
        an     == DistSum(X, i, own)
        ad     == Cardinality(own) - 1
        best   == CHOOSE c \in others : \A d \in others :
                      DistSum(X, i, Members(lab, c)) * Cardinality(Members(lab, d))
                          <= DistSum(X, i, Members(lab, d)) * Cardinality(Members(lab, c))
        bn     == DistSum(X, i, Members(lab, best))
        bd     == Cardinality(Members(lab, best))
    IN  IF ad = 0 THEN 0
        ELSE IF Max2(an * bd, bn * ad) = 0 THEN 0
        ELSE FixedS(bn * ad - an * bd, Max2(an * bd, bn * ad))

\* silhouette_score: the mean over the samples, kept as the sum (every
\* candidate is scored on the same n samples); 2 <= n_labels <= n - 1 or
\* ValueError
SilhouetteScore(X, lab) ==
    IF Cardinality(LabelSet(lab)) < 2 \/ Cardinality(LabelSet(lab)) > Len(X) - 1
    THEN Raise("ValueError", "Number of labels is invalid")
    ELSE Return(SumSeq([i \in 1..Len(X) |-> SilhouetteSample(X, lab, i)]))

\* the last position of the maximum
ArgMaxLast(scores) ==
    CHOOSE i \in 1..Len(scores) :
        /\ \A j \in 1..Len(scores) : scores[j] <= scores[i]
        /\ \A j \in (i + 1)..Len(scores) : scores[j] < scores[i]

\* np.argmax: the first position of the maximum
ArgMax(scores) ==
    CHOOSE i \in 1..Len(scores) :
        /\ \A j \in 1..Len(scores) : scores[j] <= scores[i]
        /\ \A j \in 1..(i - 1) : scores[j] < scores[i]

\* the random_state argument of both KMeans constructions
KMeansRandomStateNone == None
KMeansRandomState == Some(SEED)

\* the stream of the c-th KMeans built since the call began: a seeded stream
\* is fresh every time, the process-wide one has advanced c - 1 times
StreamAt(g, c) ==
    IF KMeansRandomState = None THEN (g + c - 1) % RngMod
    ELSE StreamOf(KMeansRandomState, g)

GlobalAfter(g, c) == IF KMeansRandomState = None THEN (g + c) % RngMod ELSE g

\* KMeans(n_clusters = k, random_state = ...), the c-th built since the call
\* began, and its fit_predict(X)
KMeansAt(X, k, g, c) ==
    Only({KMeansFitPredict(X, n, s) : n \in {k}, s \in {StreamAt(g, c)}})

\* lines 148-150 for one candidate n, the c-th of the loop: the silhouette
\* score of its partition, or the exception of KMeans or of silhouette_score
CandidateScore(X, n, g, c) ==
    Only({IF km.kind = "raise" THEN km ELSE SilhouetteScore(X, km.vals) :
             km \in {KMeansAt(X, n, g, c)}})

\* the candidates of zone_range = range(min_zones, max_zones + 1), in order
Candidates(X, lo, hi, g) ==
    [c \in 1..(hi - lo + 1) |-> CandidateScore(X, lo + c - 1, g, c)]

\* the loop of lines 147-151 ends at the first candidate that raises
Raising(cs) == {c \in 1..Len(cs) : cs[c].kind = "raise"}
FirstRaising(cs) == CHOOSE c \in Raising(cs) : \A d \in Raising(cs) : c <= d

\* lines 144-162 on the candidates' outcomes: out.vals is
\* <<optimal_n, silhouette_scores>>, runs the number of KMeans built
SelectOptimal(lo, cs) ==
    IF Raising(cs) # {}
    THEN [out |-> cs[FirstRaising(cs)], runs |-> FirstRaising(cs)]
    ELSE IF Len(cs) = 0
    THEN [out |-> Raise("ValueError", "attempt to get argmax of an empty sequence"),
          runs |-> 0]
    ELSE [out |-> Return(<<lo + ArgMax([c \in 1..Len(cs) |-> cs[c].vals]) - 1,
                           [c \in 1..Len(cs) |-> cs[c].vals]>>),
          runs |-> Len(cs)]

\* _find_optimal_zones counting the candidates from min_zones + 1
FindOptimalZonesShifted(obj, X, g) ==
    Only({SelectOptimal(obj.min_zones + 1, cs) :
             cs \in {Candidates(X, obj.min_zones, obj.max_zones, g)}})

\* _find_optimal_zones
FindOptimalZones(obj, X, g) ==
    Only({SelectOptimal(obj.min_zones, cs) :
             cs \in {Candidates(X, obj.min_zones, obj.max_zones, g)}})

\* mean of the yield values of the samples labelled j, total / count; NaN for
\* an empty cluster
ZoneMean(yield_values, lab, j) ==
    IF Members(lab, j) = {} THEN None
    ELSE Some([total |-> SumOver(yield_values, Members(lab, j)),
               count |-> Cardinality(Members(lab, j))])

\* the order np.argsort keeps: ascending, NaN last, equal keys by position
MeanBefore(means, i, j) ==
    IF means[i] = None THEN means[j] = None /\ i < j
    ELSE IF means[j] = None THEN TRUE
    ELSE LET a == means[i][1]
             b == means[j][1]
         IN  \/ a.total * b.count < b.total * a.count
             \/ a.total * b.count = b.total * a.count /\ i < j

\* label_map[old]: the rank of cluster old in zone_order
LabelMap(means, old) ==
    Cardinality({j \in 1..Len(means) : MeanBefore(means, j, old + 1)})

\* lines 200-206: zone_means, zone_order, label_map, the remapped labels
RemapLabels(yield_values, lab, n_zones) ==
    LET zone_means == [j \in 1..n_zones |-> ZoneMean(yield_values, lab, j - 1)]
    IN  [i \in 1..Len(lab) |-> LabelMap(zone_means, lab[i])]

\* lines 195-208 once KMeans has run: the model is stored, and the labels are
\* remapped unless fit_predict raised
FitModel(obj, yield_values, n_zones, km, g) ==
    IF km.kind = "raise"
    THEN [obj |-> [obj EXCEPT !.model = Some([n_clusters |-> n_zones, labels_ |-> None])],
          out |-> km, g |-> g]
    ELSE [obj |-> [obj EXCEPT !.model =
                      Some([n_clusters |-> n_zones, labels_ |-> Some(km.vals)])],
          out |-> Return(RemapLabels(yield_values, km.vals, n_zones)), g |-> g]

\* lines 193-208 with the zone count settled, after `runs` KMeans were built
Cluster(obj, yield_values, n_zones, g, runs) ==
    Only({FitModel([obj EXCEPT !.optimal_n_zones = Some(n_zones)], yield_values,
                   n_zones, km, GlobalAfter(g, runs + 1)) :
             km \in {KMeansAt(ScalerFitTransform(yield_values), n_zones, g, runs + 1)}})

\* lines 186-208 in auto-selection mode, given what _find_optimal_zones did
AutoCluster(obj, yield_values, g, found) ==
    IF found.out.kind = "raise"
    THEN [obj |-> obj, out |-> found.out, g |-> GlobalAfter(g, found.runs)]
    ELSE Cluster(obj, yield_values, found.out.vals[1], g, found.runs)

\* fit_predict(yield_values) with features = None: the delineator after the
\* call, the outcome, and the process-wide stream after it
ZDFitPredict(obj, yield_values, g) ==
    IF Len(yield_values) = 0
    THEN [obj |-> obj, out |-> Raise("ValueError", "Found array with 0 sample(s)"),
          g |-> g]
    ELSE IF obj.n_zones = None
    THEN Only({AutoCluster([obj EXCEPT !.scaler = ScalerState(yield_values)],
                           yield_values, g, found) :
                  found \in {FindOptimalZones(obj, ScalerFitTransform(yield_values), g)}})
    ELSE Cluster([obj EXCEPT !.scaler = ScalerState(yield_values)], yield_values,
                 obj.n_zones[1], g, 0)

(************************* the delineator's calls **************************)
ZDConfigs ==
    {ZDNew(Some(k), DefaultMinZones, DefaultMaxZones) : k \in 1..MaxZones}
        \cup {ZDNew(None, a, b) : a \in 1..MaxZones, b \in 1..MaxZones}

InitZD ==
    /\ zd \in ZDConfigs
    /\ zdOut = NoCall
    /\ zdCalls = 0
    /\ npRandom \in 0..(RngMod - 1)
    /\ IdleIDW
    /\ IdlePipe

FitPredict ==
    /\ zdCalls < MaxZDCalls
    /\ \E yield_values \in SeqsUpTo(ZVals, MaxVals) :
       \E r \in {ZDFitPredict(zd, yield_values, npRandom)} :
          /\ zd' = r.obj
          /\ zdOut' = [op |-> "fit_predict", args |-> <<yield_values>>,
                       fitted |-> zd.model # None, kind |-> r.out.kind,
                       cls |-> r.out.cls, msg |-> r.out.msg, vals |-> r.out.vals]
          /\ npRandom' = r.g
    /\ zdCalls' = zdCalls + 1
    /\ UNCHANGED <<varsIDW, varsPipe, ingestOut, varsApi>>

NextZD == FitPredict

SpecZD == InitZD /\ [][NextZD]_vars

(*********************** delineate_management_zones ***********************)
\* np.arange(lo, hi, step): lo, lo + step, ... below hi; empty when hi <= lo
Arange(lo, hi, step) ==
    IF hi <= lo THEN <<>>
    ELSE [i \in 1..((hi - lo + step - 1) \div step) |-> lo + (i - 1) * step]

\* GeoDataFrame.total_bounds of a non-empty frame: (min_x, min_y, max_x, max_y)
TotalBounds(coords) ==
    LET xs == [i \in 1..Len(coords) |-> coords[i][1]]
        ys == [i \in 1..Len(coords) |-> coords[i][2]]
    IN  <<SeqMin(xs), SeqMin(ys), SeqMax(xs), SeqMax(ys)>>

\* np.c_[grid_x.ravel(), grid_y.ravel()] of np.meshgrid(x, y): row-major, a
\* row per y and a column per x
GridCoords(x, y) ==
    [c \in 1..(Len(x) * Len(y)) |->
        <<x[((c - 1) % Len(x)) + 1], y[((c - 1) \div Len(x)) + 1]>>]

\* lines 109-110 on what predict did: the reshape to the shape of the mesh
\* fails when predict returned another number of values
GridValues(x, y, grid_values) ==
    IF grid_values.kind = "raise" THEN grid_values
    ELSE IF Len(grid_values.vals) # Len(x) * Len(y)
    THEN Raise("ValueError", "cannot reshape array")
    ELSE Return(<<x, y, grid_values.vals>>)

\* interpolate_grid: vals is <<x, y, grid_values>>
InterpolateGrid(obj, bounds, resolution) ==
    Only({GridValues(x, y, IDWPredict(obj, GridCoords(x, y))) :
             x \in {Arange(bounds[1], bounds[3], resolution)},
             y \in {Arange(bounds[2], bounds[4], resolution)}})

(************************* interpolate_grid's calls *************************)
\* bounds = (min_x, min_y, max_x, max_y) with min <= max on both axes
GridBounds ==
    {b \in (0..BoundMax) \X (0..BoundMax) \X (0..BoundMax) \X (0..BoundMax) :
        b[1] <= b[3] /\ b[2] <= b[4]}

\* a call on the interpolator as the last fit left it (the call changes
\* nothing in the interpolator, so a second call reaches no other state)
InterpolateGridCall ==
    /\ idwOut.op = "fit"
    /\ \E bounds \in GridBounds, resolution \in Resolutions :
       \E r \in {InterpolateGrid(idw, bounds, resolution)} :
          idwOut' = Call("interpolate_grid", <<bounds, resolution>>, idw, r)
    /\ UNCHANGED <<idw, idwFits>>
    /\ UNCHANGED <<varsZD, varsPipe, ingestOut, varsApi>>

NextGrid == Fit \/ InterpolateGridCall

SpecGrid == InitIDW /\ [][NextGrid]_vars

\* the tree queried with the coordinates of each point in (y, x) order
PointZonesSwapped(coords, grid_coords, zone_labels) ==
    [i \in 1..Len(coords) |->
        zone_labels[KNearest(grid_coords, <<coords[i][2], coords[i][1]>>, 1)[1].idx]]

\* lines 286-292: each point takes the label of its nearest grid cell
PointZones(coords, grid_coords, zone_labels) ==
    [i \in 1..Len(coords) |->
        zone_labels[KNearest(grid_coords, coords[i], 1)[1].idx]]

\* str() of an int that is not negative, as formatted into an f-string
RECURSIVE Decimal(_)
Decimal(n) ==
    LET digit == <<"0", "1", "2", "3", "4", "5", "6", "7", "8", "9">>[(n % 10) + 1]
    IN  IF n < 10 THEN <<digit>> ELSE Decimal(n \div 10) \o <<digit>>

\* the name made of the zone_id as it is
ZoneNameOfId(zone_id) == <<"Z", "o", "n", "e", " ">> \o Decimal(zone_id)

\* line 303: f"Zone {zone_id + 1}"
ZoneName(zone_id) == <<"Z", "o", "n", "e", " ">> \o Decimal(zone_id + 1)

\* lines 297-309: the record of one zone (the mean is total / count, the area
\* is kept in square metres: hectares times 10000)
ZoneRecord(values, point_zones, zone_id, resolution) ==
    [zone_id |-> zone_id,
     zone_name |-> ZoneName(zone_id),
     n_points |-> Cardinality(Members(point_zones, zone_id)),
     yield_mean |-> [total |-> SumOver(values, Members(point_zones, zone_id)),
                     count |-> Cardinality(Members(point_zones, zone_id))],
     area_m2 |-> Cardinality(Members(point_zones, zone_id)) * resolution * resolution]

\* the loop with range(optimal_n_zones - 1)
RECURSIVE ZonesListShort(_, _, _, _, _)
ZonesListShort(values, point_zones, zone_id, n, resolution) ==
    IF zone_id >= n - 1 THEN <<>>
    ELSE IF Members(point_zones, zone_id) = {}
    THEN ZonesListShort(values, point_zones, zone_id + 1, n, resolution)
    ELSE <<ZoneRecord(values, point_zones, zone_id, resolution)>>
             \o ZonesListShort(values, point_zones, zone_id + 1, n, resolution)

\* the loop leaving at the first zone without points
RECURSIVE ZonesListBreak(_, _, _, _, _)
ZonesListBreak(values, point_zones, zone_id, n, resolution) ==
    IF zone_id >= n THEN <<>>
    ELSE IF Members(point_zones, zone_id) = {} THEN <<>>
    ELSE <<ZoneRecord(values, point_zones, zone_id, resolution)>>
             \o ZonesListBreak(values, point_zones, zone_id + 1, n, resolution)

\* lines 274-309: the loop over range(optimal_n_zones) from zone_id on, which
\* skips the zones without points
RECURSIVE ZonesList(_, _, _, _, _)
ZonesList(values, point_zones, zone_id, n, resolution) ==
    IF zone_id >= n THEN <<>>
    ELSE IF Members(point_zones, zone_id) = {}
    THEN ZonesList(values, point_zones, zone_id + 1, n, resolution)
    ELSE <<ZoneRecord(values, point_zones, zone_id, resolution)>>
             \o ZonesList(values, point_zones, zone_id + 1, n, resolution)

\* the surface handed to fit_predict: a NaN cell makes StandardScaler raise
HasNaN(grid_z) == \E c \in 1..Len(grid_z) : grid_z[c] = None
Flat(grid_z) == [c \in 1..Len(grid_z) |-> grid_z[c][1]]

\* lines 270-343 once the grid cells are labelled: the zone of every point,
\* the zone records and the result bundle
Bundle(coords, values, resolution, grid, zone_labels, k, point_zones) ==
    [n_zones |-> k,
     statistics |-> ZonesList(values, point_zones, 0, k, resolution),
     grid |-> [x |-> grid[1], y |-> grid[2], z |-> grid[3], zone_labels |-> zone_labels],
     point_zones |-> point_zones]

\* lines 263-343 on what fit_predict did
Zones(coords, values, resolution, grid, fp) ==
    IF fp.out.kind = "raise" THEN [out |-> fp.out, g |-> fp.g]
    ELSE [out |-> Return(Only({Bundle(coords, values, resolution, grid, fp.out.vals,
                                      fp.obj.optimal_n_zones[1], point_zones) :
                                  point_zones \in {PointZones(coords,
                                                              GridCoords(grid[1], grid[2]),
                                                              fp.out.vals)}})),
          g |-> fp.g]

\* lines 259-343 on what interpolate_grid did
Surface(coords, values, n_zones, resolution, grid, g) ==
    IF grid.kind = "raise" THEN [out |-> grid, g |-> g]
    ELSE IF HasNaN(grid.vals[3])
    THEN [out |-> Raise("ValueError", "Input contains NaN"), g |-> g]
    ELSE Only({Zones(coords, values, resolution, grid.vals, fp) :
                  fp \in {ZDFitPredict(ZDNew(n_zones, DefaultMinZones, DefaultMaxZones),
                                       Flat(grid.vals[3]), g)}})

\* delineate_management_zones on a frame in a projected reference system (the
\* copy branch of lines 232-242): the outcome and the process-wide stream
\* after the call
DelineateManagementZones(coords, values, n_zones, resolution, idw_power, g) ==
    IF Len(coords) = 0
    THEN [out |-> Raise("ValueError", "zero-size array to reduction operation minimum"),
          g |-> g]
    ELSE Only({Surface(coords, values, n_zones, resolution, grid, g) :
                  grid \in {InterpolateGrid(
                                IDWFit(IDWNew(idw_power, DefaultMaxNeighbors), coords, values),
                                TotalBounds(coords), resolution)}})

(*************************** the pipeline's calls **************************)
\* a harvest frame: up to MaxHarvest points, each a location and a yield
Harvests == SeqsUpTo(HarvestLocs \X HarvestYields, MaxHarvest)

Coords(harvest) == [i \in 1..Len(harvest) |-> harvest[i][1]]
Yields(harvest) == [i \in 1..Len(harvest) |-> harvest[i][2]]

Run(args, r) ==
    [op |-> "delineate_management_zones", args |-> args, kind |-> r.out.kind,
     cls |-> r.out.cls, msg |-> r.out.msg, vals |-> r.out.vals]

\* the process may have drawn from the numpy stream before the first call
InitPipe ==
    /\ IdlePipe
    /\ npRandom \in 0..(RngMod - 1)
    /\ IdleIDW
    /\ IdleZD

\* a call on a new frame
Delineate ==
    /\ pipeRuns = 0
    /\ \E harvest \in Harvests, n_zones \in {None} \cup {Some(k) : k \in 1..MaxZones},
          resolution \in Resolutions, idw_power \in PipePowers :
       \E r \in {DelineateManagementZones(Coords(harvest), Yields(harvest), n_zones,
                                          resolution, idw_power, npRandom)} :
          /\ pipeOut' = Run(<<harvest, n_zones, resolution, idw_power>>, r)
          /\ npRandom' = r.g
    /\ pipePrev' = NoRun
    /\ pipeRuns' = 1
    /\ UNCHANGED <<varsIDW, zd, zdOut, zdCalls, ingestOut, varsApi>>

\* the same call again, in the same process; whatever ran in between may
\* have drawn from the numpy stream
Rerun ==
    /\ pipeRuns >= 1
    /\ pipeRuns <= MaxReruns
    /\ \E g \in {npRandom, (npRandom + 1) % RngMod} :
       \E r \in {DelineateManagementZones(Coords(pipeOut.args[1]), Yields(pipeOut.args[1]),
                                          pipeOut.args[2], pipeOut.args[3],
                                          pipeOut.args[4], g)} :
          /\ pipeOut' = Run(pipeOut.args, r)
          /\ npRandom' = r.g
    /\ pipePrev' = pipeOut
    /\ pipeRuns' = pipeRuns + 1
    /\ UNCHANGED <<varsIDW, zd, zdOut, zdCalls, ingestOut, varsApi>>

NextPipe == Delineate \/ Rerun

SpecPipe == InitPipe /\ [][NextPipe]_vars

(******************* reference frames and the result dict ******************)
\* A reference frame (CRS).  Coordinates are kept in a length unit of which a
\* degree holds UnitsPerDegree; a planar frame counts from its own origin, so
\* a change of frame moves the coordinates from one origin to the other.
UnitsPerDegree == 100
FalseNorthing == 10000

Wgs84 == [proj |-> "longlat", zone |-> 0, hemisphere |-> "none"]

\* "+proj=utm +zone={utm_zone} +{hemisphere} +datum=WGS84 +units=m +no_defs"
UtmCrs(utm_zone, hemisphere) ==
    [proj |-> "utm", zone |-> utm_zone, hemisphere |-> hemisphere]

IsGeographic(crs) == crs.proj = "longlat"

\* the origin of a frame in geographic coordinates: a UTM zone counts east
\* from its western edge and, in the south, north from a false origin
FrameOrigin(crs) ==
    IF IsGeographic(crs) THEN <<0, 0>>
    ELSE <<((crs.zone - 1) * 6 - 180) * UnitsPerDegree,
           IF crs.hemisphere = "south" THEN 0 - FalseNorthing ELSE 0>>

\* to_crs on one coordinate pair
Transform(p, from, to) ==
    <<p[1] + FrameOrigin(from)[1] - FrameOrigin(to)[1],
      p[2] + FrameOrigin(from)[2] - FrameOrigin(to)[2]>>

\* GeoDataFrame.to_crs on a frame of points with yields
ToCrs(gdf, crs) ==
    [crs  |-> crs,
     rows |-> [i \in 1..Len(gdf.rows) |->
                  <<Transform(gdf.rows[i][1], gdf.crs, crs), gdf.rows[i][2]>>]]

\* lines 236-239: the UTM frame of the centroid of the points.  dissolve()
\* unites the points, so a point met twice counts once, and the centroid is
\* the mean of the distinct points; int() on (centroid.x + 180) / 6, with
\* centroid.x = sum / (n * UnitsPerDegree), cuts the fraction off towards 0
UtmOfCentroid(rows) ==
    LET first == SelectSeq([i \in 1..Len(rows) |-> i],
                           LAMBDA i : \A j \in 1..(i - 1) : rows[j][1] # rows[i][1])
        n  == Len(first)
        sx == SumSeq([i \in 1..n |-> rows[first[i]][1][1]])
        sy == SumSeq([i \in 1..n |-> rows[first[i]][1][2]])
        Truncated(num, den) == IF num >= 0 THEN num \div den ELSE 0 - ((0 - num) \div den)
    IN  UtmCrs(Truncated(sx + 180 * n * UnitsPerDegree, 6 * n * UnitsPerDegree) + 1,
               IF sy >= 0 THEN "north" ELSE "south")

\* lines 232-242: harvest_utm
HarvestUtm(harvest_gdf) ==
    IF IsGeographic(harvest_gdf.crs)
    THEN ToCrs(harvest_gdf, UtmOfCentroid(harvest_gdf.rows))
    ELSE harvest_gdf

\* an array with its shape
NdArray(shape, data) == [shape |-> shape, data |-> data]

\* np.meshgrid(x, y): two arrays of shape (len(y), len(x))
MeshX(x, y) == NdArray(<<Len(y), Len(x)>>, [c \in 1..(Len(x) * Len(y)) |-> x[((c - 1) % Len(x)) + 1]])
MeshY(x, y) == NdArray(<<Len(y), Len(x)>>, [c \in 1..(Len(x) * Len(y)) |-> y[((c - 1) \div Len(x)) + 1]])

\* results['grid']['zone_labels'] handed out as the flat zone_labels
ZoneGridFlat(zone_labels, shape) == NdArray(<<Len(zone_labels)>>, zone_labels)

\* line 268: zone_grid = zone_labels.reshape(grid_z.shape)
ZoneGrid(zone_labels, shape) == NdArray(shape, zone_labels)

\* lines 334-341: results['grid']
GridData(grid, crs) ==
    [x |-> MeshX(grid.x, grid.y),
     y |-> MeshY(grid.x, grid.y),
     z |-> NdArray(<<Len(grid.y), Len(grid.x)>>, grid.z),
     zone_labels |-> ZoneGrid(grid.zone_labels, <<Len(grid.y), Len(grid.x)>>),
     crs |-> crs]

\* line 308: the geometry of a zone is the convex hull of its points, kept as
\* the set of the points it is the hull of
ZoneGeometry(coords, point_zones, zone_id) ==
    {coords[i] : i \in Members(point_zones, zone_id)}

\* line 311: zones_gdf, a row per record of zones_list, in the frame of
\* harvest_utm
ZonesGdf(zones_list, coords, point_zones, crs) ==
    [crs  |-> crs,
     rows |-> [a \in 1..Len(zones_list) |->
                  [zone_id    |-> zones_list[a].zone_id,
                   zone_name  |-> zones_list[a].zone_name,
                   n_points   |-> zones_list[a].n_points,
                   yield_mean |-> zones_list[a].yield_mean,
                   area_m2    |-> zones_list[a].area_m2,
                   geometry   |-> ZoneGeometry(coords, point_zones, zones_list[a].zone_id)]]]

\* zones_gdf.to_crs: every geometry is transformed
ZonesToCrs(zones_gdf, crs) ==
    [crs  |-> crs,
     rows |-> [a \in 1..Len(zones_gdf.rows) |->
                  [zones_gdf.rows[a] EXCEPT
                      !.geometry = {Transform(p, zones_gdf.crs, crs) :
                                       p \in zones_gdf.rows[a].geometry}]]]

\* the zones handed out in the frame of harvest_utm
KeepFrame(zones_gdf, crs) == zones_gdf

\* lines 313-315: back to the frame of harvest_gdf when it is another one
ReprojectBack(zones_gdf, crs) ==
    IF crs # zones_gdf.crs THEN ZonesToCrs(zones_gdf, crs) ELSE zones_gdf

\* lines 330-331: the columns of zones_gdf without the geometry, to_dict('records')
ToRecords(zones_gdf) ==
    [a \in 1..Len(zones_gdf.rows) |->
        [zone_id    |-> zones_gdf.rows[a].zone_id,
         zone_name  |-> zones_gdf.rows[a].zone_name,
         n_points   |-> zones_gdf.rows[a].n_points,
         yield_mean |-> zones_gdf.rows[a].yield_mean,
         area_m2    |-> zones_gdf.rows[a].area_m2]]

\* lines 326-343: the result dict, given the zones in the frame handed out
ResultDict(zones_gdf, bundle, utm_crs, return_grid) ==
    [zones_gdf   |-> zones_gdf,
     n_zones     |-> bundle.n_zones,
     statistics  |-> ToRecords(zones_gdf),
     grid        |-> IF return_grid THEN Some(GridData(bundle.grid, utm_crs)) ELSE None,
     point_zones |-> bundle.point_zones]

\* lines 311-343 on what the planar steps did
Results(harvest_gdf, harvest_utm, planar, return_grid) ==
    IF planar.out.kind = "raise" THEN planar
    ELSE [out |-> Return(Only({ResultDict(zones_gdf, planar.out.vals, harvest_utm.crs,
                                          return_grid) :
                                  zones_gdf \in {ReprojectBack(
                                      ZonesGdf(planar.out.vals.statistics,
                                               Coords(harvest_utm.rows),
                                               planar.out.vals.point_zones,
                                               harvest_utm.crs),
                                      harvest_gdf.crs)}})),
          g |-> planar.g]

\* delineate_management_zones on a frame with a reference system; to_crs
\* (line 240) refuses a UTM zone that does not exist
DelineateManagementZonesIn(harvest_gdf, n_zones, resolution, idw_power, return_grid, g) ==
    IF IsGeographic(harvest_gdf.crs) /\ Len(harvest_gdf.rows) = 0
    THEN [out |-> Raise("IndexError", "single positional indexer is out-of-bounds"),
          g |-> g]
    ELSE IF IsGeographic(harvest_gdf.crs)
            /\ UtmOfCentroid(harvest_gdf.rows).zone \notin 1..60
    THEN [out |-> Raise("CRSError", "Invalid projection: invalid UTM zone number"),
          g |-> g]
    ELSE Only({Results(harvest_gdf, harvest_utm,
                       DelineateManagementZones(Coords(harvest_utm.rows),
                                                Yields(harvest_utm.rows), n_zones,
                                                resolution, idw_power, g),
                       return_grid) :
                  harvest_utm \in {HarvestUtm(harvest_gdf)}})

(********************* the calls that vary the frame ***********************)
\* a projected input frame (EPSG:32722) and the fields of the geographic
\* inputs: a UTM zone and hemisphere each
ProjectedCrs == UtmCrs(22, "south")
Sites == {UtmCrs(23, "south"), UtmCrs(31, "north"), UtmCrs(1, "north"), UtmCrs(60, "north")}

FrameHarvests == SeqsUpTo(HarvestLocs \X HarvestYields, MaxFrameHarvest)

\* the input frames: the harvests in the projected frame, in longitude and
\* latitude at each site, and westwards from the meridian 180 E
HarvestFrames ==
    {[crs |-> ProjectedCrs, rows |-> h] : h \in FrameHarvests}
        \cup {ToCrs([crs |-> site, rows |-> h], Wgs84) : h \in FrameHarvests, site \in Sites}
        \cup {[crs |-> Wgs84,
               rows |-> [i \in 1..Len(h) |->
                            <<<<180 * UnitsPerDegree - h[i][1][1], h[i][1][2]>>, h[i][2]>>]] :
                  h \in FrameHarvests}

DelineateIn ==
    /\ pipeRuns = 0
    /\ \E harvest_gdf \in HarvestFrames,
          n_zones \in {None} \cup {Some(k) : k \in 1..MaxZones},
          resolution \in Resolutions, idw_power \in PipePowers, return_grid \in BOOLEAN :
       \E r \in {DelineateManagementZonesIn(harvest_gdf, n_zones, resolution, idw_power,
                                            return_grid, npRandom)} :
          /\ pipeOut' = Run(<<harvest_gdf.rows, n_zones, resolution, idw_power,
                              harvest_gdf.crs, return_grid>>, r)
          /\ npRandom' = r.g
    /\ pipePrev' = NoRun
    /\ pipeRuns' = 1
    /\ UNCHANGED <<varsIDW, zd, zdOut, zdCalls, ingestOut, varsApi>>

NextFrames == DelineateIn

SpecFrames == InitPipe /\ [][NextFrames]_vars

(************************* ingestion: DataValidator ************************)
\* A frame of harvest points: whether it has a 'yield' column, its crs (None
\* when undefined) and the yield of each row, <<>> for a missing value (NaN).
\* The coordinates play no part in the validation but for stats['bounds'],
\* which is left out together with the std and the median of the yields.
Gdf(has_yield, crs, rows) == [has_yield |-> has_yield, crs |-> crs, rows |-> rows]

\* __init__
DataValidatorNew(min_points, yield_min, yield_max) ==
    [min_points |-> min_points, yield_min |-> yield_min, yield_max |-> yield_max]

\* dropna taking the negative yields for missing ones
DropNaNegative(rows) ==
    LET kept == SelectSeq(rows, LAMBDA r : r # None /\ r[1] >= 0)
    IN  [i \in 1..Len(kept) |-> kept[i][1]]

\* the yields that are not NaN, in row order
DropNa(rows) ==
    LET kept == SelectSeq(rows, LAMBDA r : r # None)
    IN  [i \in 1..Len(kept) |-> kept[i][1]]

\* the check of line 51 one point too lenient
InsufficientPointsLenient(n_points, min_points) == n_points + 1 < min_points

\* line 51
InsufficientPoints(n_points, min_points) == n_points < min_points

\* validate: a message is its text and the number formatted into it; a stats
\* key that is not set is None, a NaN statistic Some(None)
Validate(self, gdf) ==
    LET Message(text, n) == [text |-> text, n |-> n]
        n_points == Len(gdf.rows)
        few == IF InsufficientPoints(n_points, self.min_points)
               THEN <<Message("Insufficient points", n_points)>> ELSE <<>>
        yield_data == DropNa(gdf.rows)
        n_nan == n_points - Len(yield_data)
        low == Len(SelectSeq(yield_data, LAMBDA v : v < self.yield_min))
        high == Len(SelectSeq(yield_data, LAMBDA v : v > self.yield_max))
        Stat(v) == IF yield_data = <<>> THEN Some(None) ELSE Some(Some(v))
        Seen(k, text) == IF k > 0 THEN <<Message(text, k)>> ELSE <<>>
        Count(k) == IF k > 0 THEN Some(k) ELSE None
    IN  IF ~gdf.has_yield
        THEN [valid |-> FALSE,
              errors |-> few \o <<Message("Missing 'yield' column", 0)>>,
              warnings |-> <<>>,
              stats |-> [n_points |-> Some(n_points), yield_mean |-> None,
                         yield_min |-> None, yield_max |-> None, n_missing |-> None,
                         outliers_low |-> None, outliers_high |-> None]]
        ELSE [valid |-> few = <<>>,
              errors |-> few,
              warnings |-> Seen(n_nan, "points with missing yield values")
                               \o Seen(low, "points below minimum yield")
                               \o Seen(high, "points above maximum yield")
                               \o (IF gdf.crs = None
                                   THEN <<Message("No CRS defined, assuming EPSG:4326", 0)>>
                                   ELSE <<>>),
              stats |-> [n_points |-> Some(n_points),
                         yield_mean |-> Stat([total |-> SumSeq(yield_data),
                                              count |-> Len(yield_data)]),
                         yield_min |-> Stat(SeqMin(yield_data)),
                         yield_max |-> Stat(SeqMax(yield_data)),
                         n_missing |-> Count(n_nan),
                         outliers_low |-> Count(low),
                         outliers_high |-> Count(high)]]

(*********************** ingestion: HarvestDataReader **********************)
\* read_csv.  A CSV file is its header (the column names, in file order) and
\* its number of rows; a column of the frame is its name and the CSV columns
\* its cells come from.  rename gives every column named yield_col the name
\* 'yield', and the selection of line 141 takes, for each of its two labels,
\* every column of that name.  The error carries the absent names as vals.
ReadCsv(csv, lat_col, lon_col, yield_col) ==
    LET required == <<lat_col, lon_col, yield_col>>
        InFile(col) == \E c \in 1..Len(csv.columns) : csv.columns[c] = col
        missing == SelectSeq(required, LAMBDA col : ~InFile(col))
        Renamed(col) == IF yield_col # "yield" /\ col = yield_col THEN "yield" ELSE col
        gdf == [c \in 1..Len(csv.columns) |->
                   [name |-> Renamed(csv.columns[c]), from |-> <<csv.columns[c]>>]]
                \o <<[name |-> "geometry", from |-> <<lon_col, lat_col>>]>>
        Named(label) == SelectSeq(gdf, LAMBDA col : col.name = label)
    IN  IF missing # <<>>
        THEN [Raise("ValueError", "Missing columns") EXCEPT !.vals = missing]
        ELSE Return([columns |-> Named("geometry") \o Named("yield"), n |-> csv.n])

(*********************** ingestion: ingest_harvest_data ********************)
RECURSIVE SortAsc(_)
SortAsc(s) ==
    IF s = <<>> THEN <<>>
    ELSE LET i == CHOOSE i \in 1..Len(s) : \A j \in 1..Len(s) : s[i] <= s[j]
         IN  <<s[i]>> \o SortAsc(SubSeq(s, 1, i - 1) \o SubSeq(s, i + 1, Len(s)))

\* 4 * Series.quantile(q4 / 4) with linear interpolation between the order
\* statistics; NaN (None) for no values
Quantile4(values, q4) ==
    LET v  == SortAsc(values)
        h  == q4 * (Len(v) - 1)
        lo == (h \div 4) + 1
    IN  IF v = <<>> THEN None
        ELSE Some(4 * v[lo] + (h % 4) * (IF lo < Len(v) THEN v[lo + 1] - v[lo] ELSE 0))

\* the cleaning with strict comparisons
CleanOutliersStrict(rows) ==
    LET Q1 == Quantile4(DropNa(rows), 1)
        Q3 == Quantile4(DropNa(rows), 3)
    IN  IF Q1 = None THEN <<>>
        ELSE SelectSeq(rows, LAMBDA r :
                 /\ r # None
                 /\ 4 * r[1] > Q1[1] - 3 * (Q3[1] - Q1[1])
                 /\ 4 * r[1] < Q3[1] + 3 * (Q3[1] - Q1[1]))

\* lines 279-289: the rows within Q1 - 3 IQR and Q3 + 3 IQR; a comparison with
\* NaN is false, so a row without yield is dropped
CleanOutliers(rows) ==
    LET Q1 == Quantile4(DropNa(rows), 1)
        Q3 == Quantile4(DropNa(rows), 3)
    IN  IF Q1 = None THEN <<>>
        ELSE SelectSeq(rows, LAMBDA r :
                 /\ r # None
                 /\ 4 * r[1] >= Q1[1] - 3 * (Q3[1] - Q1[1])
                 /\ 4 * r[1] <= Q3[1] + 3 * (Q3[1] - Q1[1]))

\* str.lower on a string kept as the sequence of its characters
LowerChar(c) ==
    CASE c = "C" -> "c" [] c = "S" -> "s" [] c = "V" -> "v" [] c = "H" -> "h"
      [] c = "P" -> "p" [] c = "T" -> "t" [] c = "X" -> "x" [] OTHER -> c

\* a suffix taken as it is written
AsWritten(str) == str

\* line 214: lower()
Lower(str) == [i \in 1..Len(str) |-> LowerChar(str[i])]

\* lines 213-230: the reader that is used, or None
FileType(file_type, suffix) ==
    IF file_type = "auto"
    THEN (IF Lower(suffix) = <<".", "c", "s", "v">> THEN Some("csv")
          ELSE IF Lower(suffix) = <<".", "s", "h", "p">> THEN Some("shapefile")
          ELSE None)
    ELSE IF file_type \in {"csv", "shapefile"} THEN Some(file_type) ELSE None

\* lines 236-244: the rows within the boundary (within: their positions)
Clip(rows, boundary) ==
    LET inside == SelectSeq([i \in 1..Len(rows) |-> i], LAMBDA i : i \in boundary.within)
    IN  [j \in 1..Len(inside) |-> rows[inside[j]]]

\* ingest_harvest_data.  A data file is its suffix, what it holds (a CSV or a
\* shapefile with the columns and geometry its reader requires, or neither)
\* and its rows; a boundary file is whether it holds polygons and which rows
\* lie within them.  reads lists the readers called on the files, in order.
IngestHarvestData(data_file, boundary_file, file_type, validate, clean_outliers) ==
    LET Done(out, reads) == [kind |-> out.kind, cls |-> out.cls, msg |-> out.msg,
                             vals |-> out.vals, reads |-> reads]
        reader == FileType(file_type, data_file.suffix)
    IN  IF reader = None
        THEN Done(Raise("ValueError", IF file_type = "auto" THEN "Unknown file extension"
                                      ELSE "Unsupported file type"), <<>>)
        ELSE IF data_file.holds # reader[1]
        THEN Done(Raise("ValueError", "Missing columns, yield column or point geometry"),
                  <<reader[1]>>)
        ELSE IF boundary_file # None /\ ~boundary_file[1].polygons
        THEN Done(Raise("ValueError", "Boundary must contain polygon geometry"),
                  <<reader[1], "boundary">>)
        ELSE LET read == IF boundary_file = None THEN data_file.rows
                         ELSE Clip(data_file.rows, boundary_file[1])
                 validation_results ==
                     IF validate
                     THEN Some(Validate(DataValidatorNew(DefaultMinPoints, DefaultYieldMin,
                                                         DefaultYieldMax),
                                        Gdf(TRUE, Some(Wgs84), read)))
                     ELSE None
                 harvest_gdf == IF clean_outliers THEN CleanOutliers(read) ELSE read
             IN  Done(Return(<<Gdf(TRUE, Some(Wgs84), harvest_gdf), boundary_file,
                               validation_results>>),
                      IF boundary_file = None THEN <<reader[1]>>
                      ELSE <<reader[1], "boundary">>)

(**************************** ingestion's calls ****************************)
\* yields below, within and above the valid range, and a missing one
IngestYields == {Some(0 - 5), Some(50), Some(250), None}

\* the frames drawn keep the rows in one order: ascending yields, the missing
\* ones last
IngestRows ==
    {rows \in SeqsUpTo(IngestYields, MaxIngestRows) :
        \A i \in 1..(Len(rows) - 1) :
            rows[i] # None /\ (rows[i + 1] # None => rows[i][1] <= rows[i + 1][1])}

ValidateCall ==
    /\ ingestOut = NoRun
    /\ \E min_points \in {0, 2, DefaultMinPoints}, has_yield \in BOOLEAN,
          crs \in {None, Some(Wgs84)}, rows \in IngestRows :
          ingestOut' = [op |-> "validate",
                        args |-> <<DataValidatorNew(min_points, DefaultYieldMin,
                                                    DefaultYieldMax),
                                   Gdf(has_yield, crs, rows)>>,
                        kind |-> "return", cls |-> "", msg |-> "",
                        vals |-> Validate(DataValidatorNew(min_points, DefaultYieldMin,
                                                           DefaultYieldMax),
                                          Gdf(has_yield, crs, rows))]
    /\ UNCHANGED <<varsIDW, varsZD, varsPipe, varsApi>>

\* the suffixes of the data files drawn
Suffixes ==
    {<<".", "c", "s", "v">>, <<".", "C", "S", "V">>, <<".", "s", "h", "p">>,
     <<".", "S", "h", "p">>, <<".", "t", "x", "t">>}

\* a call on a data file, without a boundary file or with one: no polygons,
\* every row within, or every row but the first
Ingest ==
    /\ ingestOut = NoRun
    /\ \E data_file \in {[suffix |-> x, holds |-> h, rows |-> rows] :
                             x \in Suffixes, h \in {"csv", "shapefile", "neither"},
                             rows \in IngestRows},
          boundary_file \in {None, Some([polygons |-> FALSE, within |-> {}]),
                             Some([polygons |-> TRUE, within |-> 1..MaxIngestRows]),
                             Some([polygons |-> TRUE, within |-> 2..MaxIngestRows])},
          file_type \in {"auto", "csv", "shapefile", "kml"}, validate \in BOOLEAN,
          clean_outliers \in BOOLEAN :
       \E r \in {IngestHarvestData(data_file, boundary_file, file_type, validate,
                                   clean_outliers)} :
          ingestOut' = [op |-> "ingest_harvest_data",
                        args |-> <<data_file, boundary_file, file_type, validate,
                                   clean_outliers>>,
                        kind |-> r.kind, cls |-> r.cls, msg |-> r.msg, vals |-> r.vals,
                        reads |-> r.reads]
    /\ UNCHANGED <<varsIDW, varsZD, varsPipe, varsApi>>

\* the column names a file may carry, in the order it carries them
CsvHeader == <<"latitude", "longitude", "lat", "lon", "productivity", "yield">>

\* the files: some of these columns and up to two rows
CsvFiles ==
    {[columns |-> SelectSeq(CsvHeader, LAMBDA col : col \in held), n |-> n] :
        held \in SUBSET {CsvHeader[c] : c \in 1..Len(CsvHeader)}, n \in 0..2}

\* a call of read_csv on one of them
ReadCsvCall ==
    /\ ingestOut = NoRun
    /\ \E csv \in CsvFiles, lat_col \in {"latitude", "lat"},
          lon_col \in {"longitude", "lon"}, yield_col \in {"yield", "productivity"} :
       \E r \in {ReadCsv(csv, lat_col, lon_col, yield_col)} :
          ingestOut' = [op |-> "read_csv",
                        args |-> <<csv, lat_col, lon_col, yield_col>>,
                        kind |-> r.kind, cls |-> r.cls, msg |-> r.msg, vals |-> r.vals]
    /\ UNCHANGED <<varsIDW, varsZD, varsPipe, varsApi>>

NextIngest == ValidateCall \/ Ingest \/ ReadCsvCall

SpecIngest == InitPipe /\ [][NextIngest]_vars

(************************ api: get_recommendations *************************)
\* the identifier taken whole
WholeId(field_id) == field_id

\* the part of a string before its first "-", the string itself without one:
\* line 310
ShortId(field_id) ==
    LET dashes == {i \in 1..Len(field_id) : field_id[i] = "-"}
    IN  IF dashes = {} THEN field_id
        ELSE SubSeq(field_id, 1, (CHOOSE i \in dashes : \A j \in dashes : i <= j) - 1)

\* FieldRecommendations(**field_data): the optional keys of financial_impact
\* that the dict does not hold are None.  The stored records meet the
\* constraints of the models (ge, le, Literal), whose checks are left out.
FieldRecommendations(field_data) ==
    LET FinancialImpact(d) ==
            [k \in {"estimated_loss_brl_year", "estimated_gain_brl_year",
                    "reform_cost_brl", "payback_months"} |->
                IF k \in DOMAIN d THEN Some(d[k]) ELSE None]
    IN  [field_data EXCEPT
            !.zones = [z \in 1..Len(field_data.zones) |->
                          [field_data.zones[z] EXCEPT
                              !.financial_impact = FinancialImpact(@)]]]

\* a request GET /api/v1/recommendations?field_id=... answered on the day
\* now: the answer (its status and body) and the store it leaves.  The Query
\* constraints of lines 286-287 are checked before the handler runs; the
\* timestamp of an error body is left out.
GetRecommendations(fields, field_id, now) ==
    IF Len(field_id) < MinLength \/ Len(field_id) > MaxLength
    THEN [status |-> 422,
          body |-> IF Len(field_id) < MinLength THEN "string_too_short"
                   ELSE "string_too_long",
          fields |-> fields]
    ELSE IF ShortId(field_id) \notin DOMAIN fields
    THEN [status |-> 404,
          body |-> [error |-> [text |-> "Field not found", field_id |-> field_id,
                               available |-> <<F001, F002>>],
                    status_code |-> 404],
          fields |-> fields]
    ELSE Only({[status |-> 200,
                body |-> FieldRecommendations(updated[ShortId(field_id)]),
                fields |-> updated] :
                   updated \in {[fields EXCEPT ![ShortId(field_id)].analysis_date = now]}})

\* the days of the clock
Dates == 0..MaxDay

\* the identifiers requested: none, the keys and a string that is no key, a
\* full identifier, a key with dashes around it, a truncated key, and
\* identifiers of MaxLength and MaxLength + 1 characters
FieldIds ==
    LET Filler(n) == [i \in 1..n |-> "x"]
    IN  {<<>>, F001, F002, <<"F", "0", "0", "3">>,
         F001 \o <<"-", "U", "G", "-", "P">>, F001 \o <<"-">>, <<"-">> \o F001,
         <<"F", "0", "0">>,
         F002 \o <<"-">> \o Filler(MaxLength - 5), F002 \o <<"-">> \o Filler(MaxLength - 4),
         <<"F", "0", "0", "3", "-">> \o Filler(MaxLength - 4)}

InitApi ==
    /\ \E d1 \in Dates : \E d2 \in {d1, Min2(d1 + 1, MaxDay)} :
          MOCK_FIELDS = MockFields(d1, d2)
    /\ apiOut = NoRequest
    /\ pipeOut = NoRun
    /\ pipePrev = NoRun
    /\ pipeRuns = 0
    /\ ingestOut = NoRun
    /\ npRandom = 0
    /\ IdleIDW
    /\ IdleZD

GetRecommendationsCall ==
    /\ \E field_id \in FieldIds, now \in Dates :
          \E r \in {GetRecommendations(MOCK_FIELDS, field_id, now)} :
             /\ MOCK_FIELDS' = r.fields
             /\ apiOut' = [op |-> "get_recommendations", args |-> <<field_id, now>>,
                           status |-> r.status, body |-> r.body,
                           before |-> MOCK_FIELDS]
    /\ UNCHANGED <<varsIDW, varsZD, varsPipe, ingestOut>>

NextApi == GetRecommendationsCall

SpecApi == InitApi /\ [][NextApi]_vars

(********************** instances that are used again **********************)
\* the points and values of a fit, the query batches and the yield arrays
ReuseFits ==
    {<<points, values>> : points \in SeqsUpTo({<<0, 0>>, <<1, 0>>}, MaxPts),
                          values \in SeqsUpTo(Vals, MaxPts)}
ReuseQueries == {<<<<0, 0>>>>, <<<<1, 1>>>>, <<<<0, 1>>, <<1, 0>>>>}
ReuseYields == {<<>>, <<2>>, <<0, 3>>, <<3, 0, 1>>, <<0, 0, 3, 3>>, <<1, 0, 3, 2>>}

\* an interpolator and a delineator as constructed
InitReuse ==
    /\ idw \in {IDWNew(DefaultPower, k) : k \in 1..MaxPts}
    /\ idwOut = NoCall
    /\ idwFits = 0
    /\ zd \in {ZDNew(Some(DefaultMinZones), DefaultMinZones, DefaultMaxZones),
                ZDNew(None, DefaultMinZones, MaxZones)}
    /\ zdOut = NoCall
    /\ zdCalls = 0
    /\ npRandom \in 0..(RngMod - 1)
    /\ IdlePipe

\* fit on the interpolator, fitted before or not
FitAgain ==
    /\ idwFits < MaxReuse
    /\ \E f \in ReuseFits :
          /\ Len(f[1]) = Len(f[2])
          /\ idwOut' = Call("fit", f, idw, FitOutcome(idw, f[1], f[2]))
          /\ idw' = IDWFit(idw, f[1], f[2])
    /\ idwFits' = idwFits + 1
    /\ UNCHANGED <<varsZD, varsPipe, ingestOut, varsApi>>

\* predict on the interpolator as the fits left it
PredictAfter ==
    /\ \E grid_points \in ReuseQueries :
          idwOut' = Call("predict", <<grid_points>>, idw, IDWPredict(idw, grid_points))
    /\ UNCHANGED <<idw, idwFits>>
    /\ UNCHANGED <<varsZD, varsPipe, ingestOut, varsApi>>

\* fit_predict on the delineator, used before or not
FitPredictAgain ==
    /\ zdCalls < MaxReuse
    /\ \E yield_values \in ReuseYields :
       \E r \in {ZDFitPredict(zd, yield_values, npRandom)} :
          /\ zd' = r.obj
          /\ zdOut' = [op |-> "fit_predict", args |-> <<yield_values>>,
                       fitted |-> zd.model # None, kind |-> r.out.kind,
                       cls |-> r.out.cls, msg |-> r.out.msg, vals |-> r.out.vals]
          /\ npRandom' = r.g
    /\ zdCalls' = zdCalls + 1
    /\ UNCHANGED <<varsIDW, varsPipe, ingestOut, varsApi>>

NextReuse == FitAgain \/ PredictAfter \/ FitPredictAgain

SpecReuse == InitReuse /\ [][NextReuse]_vars

(************************ properties: IDWInterpolator **********************)
FittedPoints == idw.tree[1]
FittedValues == idw.values[1]
Query == idwOut.args[1]
PredictReturned == idwOut.op = "predict" /\ idwOut.fitted /\ idwOut.kind = "return"

InRange(f, values) ==
    /\ f # None
    /\ Quantum * SeqMin(values) <= f[1]
    /\ f[1] <= Quantum * SeqMax(values)

\* C6 (IDW boundedness): every value predict returns after a fit lies in
\* [min(values), max(values)] of the fitted values, for every query, power and
\* max_neighbors.
C6_Bounded ==
    PredictReturned =>
        \A r \in 1..Len(idwOut.vals) : InRange(idwOut.vals[r], FittedValues)

\* What holds of the code: the bound holds whenever the tree holds a point.
\* The values that leave the range are the NaN of a fit with no points.
BoundedOnPoints ==
    (PredictReturned /\ Len(FittedPoints) >= 1) =>
        \A r \in 1..Len(idwOut.vals) : InRange(idwOut.vals[r], FittedValues)

ParallelFit ==
    /\ idw.tree # None
    /\ Len(FittedPoints) = Len(FittedValues)
    /\ Len(FittedPoints) >= 1

NoCoincident ==
    \A i, j \in 1..Len(FittedPoints) : i # j => FittedPoints[i] # FittedPoints[j]

\* the weight of one other neighbour relative to the clamped one is at most
\* 1 / EpsInvSq, so k - 1 of them move the average by at most this much
Tolerance(values, k) ==
    (Quantum * (SeqMax(values) - SeqMin(values)) * (k - 1)) \div EpsInvSq + 1

ExactAt(j, i) ==
    /\ j <= Len(idwOut.vals)
    /\ idwOut.vals[j] # None
    /\ Abs(idwOut.vals[j][1] - Quantum * FittedValues[i])
           <= Tolerance(FittedValues, MaxNeighbors)

\* C7 (IDW exactness): after a fit of parallel arrays without coincident
\* points, predict returns one value per query point, and at a query point
\* that is the fitted point i it is within tolerance of values[i]; checked for
\* the powers (>= 2) at which the clamped distance dominates.
C7_Exactness ==
    (idwOut.op = "predict" /\ ParallelFit /\ NoCoincident /\ idw.power >= 2) =>
        /\ idwOut.kind = "return"
        /\ Len(idwOut.vals) = Len(Query)
        /\ \A j \in 1..Len(Query) : \A i \in 1..Len(FittedPoints) :
               Query[j] = FittedPoints[i] => ExactAt(j, i)

\* What holds of the code: exactness when the distance matrix has one row per
\* query point, which is when more than one neighbour is used or one point
\* is queried.
ExactWithRowPerQuery ==
    (/\ idwOut.op = "predict" /\ ParallelFit /\ NoCoincident /\ idw.power >= 2
     /\ (Min2(idw.max_neighbors, Len(FittedValues)) >= 2 \/ Len(Query) = 1)) =>
        /\ idwOut.kind = "return"
        /\ Len(idwOut.vals) = Len(Query)
        /\ \A j \in 1..Len(Query) : \A i \in 1..Len(FittedPoints) :
               Query[j] = FittedPoints[i] => ExactAt(j, i)

PredictUnfitted == idwOut.op = "predict" /\ ~idwOut.fitted

BadFitArgs ==
    /\ idwOut.op = "fit"
    /\ (Len(idwOut.args[1]) # Len(idwOut.args[2]) \/ Len(idwOut.args[1]) = 0)

\* C9: fit fails with InvalidInputError when the lengths of points and values
\* differ or when there is no point, and then stores neither index nor values.
C9_FitRejects ==
    BadFitArgs =>
        /\ idwOut.kind = "raise"
        /\ idwOut.cls = "InvalidInputError"
        /\ idw.tree = None
        /\ idw.values = None

(************************ properties: ZoneDelineator ***********************)
FitPredictReturned == zdOut.op = "fit_predict" /\ zdOut.kind = "return"
Input == zdOut.args[1]
Labels == zdOut.vals
SelectedK == zd.optimal_n_zones[1]
RawLabels == zd.model[1].labels_[1]
Distinct(values) == Cardinality({values[i] : i \in 1..Len(values)})

\* mean of the inputs labelled i is defined and <= that of the inputs labelled j
MeanLeq(values, lab, i, j) ==
    /\ Members(lab, i) # {}
    /\ Members(lab, j) # {}
    /\ SumOver(values, Members(lab, i)) * Cardinality(Members(lab, j))
           <= SumOver(values, Members(lab, j)) * Cardinality(Members(lab, i))

\* C1, as claimed: for every k >= 2 and every i in 0..k-2 the mean of the
\* inputs labelled i is <= the mean of the inputs labelled i+1.
C1_OrderedAllLabels ==
    (FitPredictReturned /\ SelectedK >= 2) =>
        \A i \in 0..(SelectedK - 2) : MeanLeq(Input, Labels, i, i + 1)

\* C1, amended: the labels that occur are ordered by ascending mean of the
\* unstandardized inputs: for labels i < j that both occur the mean of the
\* inputs labelled i is <= the mean of the inputs labelled j.
C1_OrderedOccurringLabels ==
    (FitPredictReturned /\ SelectedK >= 2) =>
        \A i, j \in LabelSet(Labels) : i < j => MeanLeq(Input, Labels, i, j)

\* the remapping acted: k-means numbered the clusters in another order
C1_Witness ==
    /\ FitPredictReturned
    /\ SelectedK = 2
    /\ LabelSet(Labels) = {0, 1}
    /\ RawLabels # Labels

SameClusters(a, b) ==
    \A i, j \in 1..Len(a) : (a[i] = a[j]) <=> (b[i] = b[j])

\* C4, as claimed: the labels are dense in [0, k): each lies in 0..k-1, each of
\* 0..k-1 occurs, and the remapping is a permutation of the k-means ids.
C4_DenseAllLabels ==
    FitPredictReturned =>
        /\ LabelSet(Labels) = 0..(SelectedK - 1)
        /\ Len(Labels) = Len(Input)
        /\ SameClusters(Labels, RawLabels)

\* C4, amended: each label lies in 0..k-1, the labels that occur are exactly
\* 0..m-1 for the number m of clusters k-means left non-empty (m = k unless the
\* input has fewer than k distinct values), and the remapping is a permutation
\* of the k-means ids.
C4_DenseOccurringLabels ==
    FitPredictReturned =>
        /\ LabelSet(Labels) \subseteq 0..(SelectedK - 1)
        /\ LabelSet(Labels) = 0..(Cardinality(LabelSet(RawLabels)) - 1)
        /\ Distinct(Input) >= SelectedK => LabelSet(Labels) = 0..(SelectedK - 1)
        /\ Len(Labels) = Len(Input)
        /\ SameClusters(Labels, RawLabels)

\* k-means left the middle cluster id empty and the remapping closed the gap
C4_Witness ==
    /\ FitPredictReturned
    /\ SelectedK = 3
    /\ LabelSet(RawLabels) = {0, 2}
    /\ LabelSet(Labels) = {0, 1}

\* C10: in auto-selection mode fit_predict fails with InsufficientDataError
\* whenever max_zones exceeds the number of distinct input values, and then
\* returns no labels.
C10_InsufficientData ==
    (/\ zdOut.op = "fit_predict"
     /\ zd.n_zones = None
     /\ zd.max_zones > Distinct(Input)) =>
        /\ zdOut.kind = "raise"
        /\ zdOut.cls = "InsufficientDataError"
        /\ zdOut.vals = <<>>

\* the same without the class: the call fails at all
AutoFailsOnFewDistinct ==
    (/\ zdOut.op = "fit_predict"
     /\ zd.n_zones = None
     /\ zd.max_zones > Distinct(Input)) => zdOut.kind = "raise"

(******************* properties: delineate_management_zones ****************)
PipeReturned == pipeOut.op = "delineate_management_zones" /\ pipeOut.kind = "return"
Harvest == pipeOut.args[1]
Statistics == pipeOut.vals.statistics
PointZoneOf == pipeOut.vals.point_zones

\* C2: in the returned zone table the records are in yield order: for records
\* with zone_id i < j, yield_mean of record i <= yield_mean of record j.
C2_RecordsOrdered ==
    PipeReturned =>
        \A a, b \in 1..Len(Statistics) :
            Statistics[a].zone_id < Statistics[b].zone_id =>
                Statistics[a].yield_mean.total * Statistics[b].yield_mean.count
                    <= Statistics[b].yield_mean.total * Statistics[a].yield_mean.count

\* C3 (partition completeness): every input point has one zone label in
\* 0..k-1, every record stands for a different zone and holds exactly the
\* points labelled with it, every point's zone has a record, and the n_points
\* of the records sum to the number of input points.
C3_Partition ==
    PipeReturned =>
        /\ Len(PointZoneOf) = Len(Harvest)
        /\ \A i \in 1..Len(Harvest) : PointZoneOf[i] \in 0..(pipeOut.vals.n_zones - 1)
        /\ \A a, b \in 1..Len(Statistics) :
               a # b => Statistics[a].zone_id # Statistics[b].zone_id
        /\ \A a \in 1..Len(Statistics) :
               Statistics[a].n_points
                   = Cardinality({i \in 1..Len(Harvest) : PointZoneOf[i] = Statistics[a].zone_id})
        /\ \A i \in 1..Len(Harvest) :
               \E a \in 1..Len(Statistics) : Statistics[a].zone_id = PointZoneOf[i]
        /\ SumSeq([a \in 1..Len(Statistics) |-> Statistics[a].n_points]) = Len(Harvest)

\* three points spread over more than one zone
C3_Witness ==
    /\ PipeReturned
    /\ Len(Harvest) = 3
    /\ Len(Statistics) >= 2

\* C5 (zone count determinism): a repetition of a call on identical inputs
\* ends the same way and, when it returns, with the same selected k, the same
\* zone label per grid cell and the same zone per point, wherever the
\* process-wide random stream stands.
C5_Deterministic ==
    pipePrev.op # "none" =>
        /\ pipeOut.args = pipePrev.args
        /\ pipeOut.kind = pipePrev.kind
        /\ pipeOut.kind = "return" =>
               /\ pipeOut.vals.n_zones = pipePrev.vals.n_zones
               /\ pipeOut.vals.grid.zone_labels = pipePrev.vals.grid.zone_labels
               /\ pipeOut.vals.point_zones = pipePrev.vals.point_zones

\* a repeated auto-selection that found several zones
C5_Witness ==
    /\ pipePrev.kind = "return"
    /\ pipePrev.args[2] = None
    /\ PipeReturned
    /\ pipeOut.vals.n_zones >= 2
    /\ Len(Statistics) >= 2

(******************** properties: _find_optimal_zones **********************)
AutoReturned == FitPredictReturned /\ zd.n_zones = None

\* the silhouette scores of the candidates of the call, in zone_range order
ScoresOn(X) ==
    Only({[c \in 1..Len(cs) |-> cs[c].vals] :
             cs \in {Candidates(X, zd.min_zones, zd.max_zones, npRandom)}})

Scores == Only({ScoresOn(X) : X \in {ScalerFitTransform(Input)}})

\* position of candidate n in zone_range
At(n) == n - zd.min_zones + 1

\* C11: in auto-selection mode the selected zone count is a candidate n in
\* min_zones..max_zones whose silhouette score is the highest, and no smaller
\* candidate reaches that score (ties go to the smallest n).
C11_HighestScoreSmallestN ==
    AutoReturned =>
        \E score \in {Scores} :
            /\ SelectedK \in zd.min_zones..zd.max_zones
            /\ \A n \in zd.min_zones..zd.max_zones : score[At(n)] <= score[At(SelectedK)]
            /\ \A n \in zd.min_zones..(SelectedK - 1) : score[At(n)] < score[At(SelectedK)]

\* two candidates tie for the highest score and the smaller one is selected
C11_Witness ==
    /\ AutoReturned
    /\ \E score \in {Scores} :
           \E n \in (SelectedK + 1)..zd.max_zones : score[At(n)] = score[At(SelectedK)]

\* C12: the selected zone count lies in the configured range: with n_zones
\* unspecified min_zones <= k <= max_zones (so min_zones = max_zones = 2 gives
\* k = 2), and with n_zones fixed k = n_zones.
C12_SelectedInRange ==
    zd.optimal_n_zones # None =>
        IF zd.n_zones = None
        THEN /\ zd.min_zones <= SelectedK
             /\ SelectedK <= zd.max_zones
             /\ (zd.min_zones = 2 /\ zd.max_zones = 2) => SelectedK = 2
        ELSE SelectedK = zd.n_zones[1]

\* the search range of size 1 selected a count and the call returned
C12_Witness ==
    /\ AutoReturned
    /\ zd.min_zones = 2
    /\ zd.max_zones = 2
    /\ SelectedK = 2
    /\ Distinct(Input) >= 2

\* the same in the pipeline, whose delineator has the default range: a
\* returned bundle reports the fixed n_zones, or a count in 2..7
PipelineZonesInRange ==
    PipeReturned =>
        IF pipeOut.args[2] = None
        THEN pipeOut.vals.n_zones \in DefaultMinZones..DefaultMaxZones
        ELSE pipeOut.vals.n_zones = pipeOut.args[2][1]

(********************* properties: interpolate_grid ************************)
GridCalled == idwOut.op = "interpolate_grid"

\* fit was given one value per point and at least one point
FittedOnPoints ==
    /\ idw.tree # None
    /\ Len(FittedPoints) >= 1
    /\ Len(FittedPoints) = Len(FittedValues)

\* C13: interpolate_grid returns a grid with at least 1 row and at least 1
\* column for every bounds with min <= max and every resolution > 0, also
\* when max_x = min_x or max_y = min_y.
C13_GridNotEmpty ==
    (GridCalled /\ FittedOnPoints) =>
        /\ idwOut.kind = "return"
        /\ Len(idwOut.vals[1]) >= 1
        /\ Len(idwOut.vals[2]) >= 1
        /\ Len(idwOut.vals[3]) = Len(idwOut.vals[1]) * Len(idwOut.vals[2])

\* the same for bounds of positive extent on both axes only
GridNotEmptyOnArea ==
    (/\ GridCalled
     /\ FittedOnPoints
     /\ idwOut.args[1][1] < idwOut.args[1][3]
     /\ idwOut.args[1][2] < idwOut.args[1][4]) =>
        /\ idwOut.kind = "return" => /\ Len(idwOut.vals[1]) >= 1
                                     /\ Len(idwOut.vals[2]) >= 1

(**************** properties: the zone records of the pipeline *************)
PointsOf(z) == {i \in 1..Len(Harvest) : PointZoneOf[i] = z}
RecordsOf(z) == {a \in 1..Len(Statistics) : Statistics[a].zone_id = z}

\* C14: a zone label in 0..k-1 to which no original point is assigned has no
\* Zone Record and does not abort the call: every label that has points still
\* has its record, with the count of its points.
C14_EmptyLabelsSkipped ==
    PipeReturned =>
        \A z \in 0..(pipeOut.vals.n_zones - 1) :
            IF PointsOf(z) = {} THEN RecordsOf(z) = {}
            ELSE /\ Cardinality(RecordsOf(z)) = 1
                 /\ \A a \in RecordsOf(z) : Statistics[a].n_points = Cardinality(PointsOf(z))

\* a label without points below a label with points, in a call that returned
C14_Witness ==
    /\ PipeReturned
    /\ \E y, z \in 0..(pipeOut.vals.n_zones - 1) :
           /\ y < z
           /\ PointsOf(y) = {}
           /\ PointsOf(z) # {}
           /\ RecordsOf(z) # {}

\* every label is left without points: the case an all-empty zone table
\* would come from
AllZonesEmpty ==
    /\ PipeReturned
    /\ \A z \in 0..(pipeOut.vals.n_zones - 1) : PointsOf(z) = {}

\* a returned bundle has at least one record, and some label has points
ReturnedTableNotEmpty ==
    PipeReturned => (Len(Statistics) >= 1 /\ ~AllZonesEmpty)

\* the cell centres of the returned grid, in the order of the cell labels
Cells == GridCoords(pipeOut.vals.grid.x, pipeOut.vals.grid.y)
CellLabels == pipeOut.vals.grid.zone_labels

\* C17: each original point has the zone label of a grid cell whose centre is
\* nearest to it: no other cell centre is strictly closer to the point.
C17_NearestCellLabel ==
    PipeReturned =>
        \E cell \in {Cells} :
            \A i \in 1..Len(Harvest) :
                \E c \in 1..Len(cell) :
                    /\ PointZoneOf[i] = CellLabels[c]
                    /\ \A d \in 1..Len(cell) :
                           Dist2(cell[c], Harvest[i][1]) <= Dist2(cell[d], Harvest[i][1])

\* a point whose nearest cell and whose farthest cell lie in different zones
C17_Witness ==
    /\ PipeReturned
    /\ \E cell \in {Cells} :
           \E i \in 1..Len(Harvest) :
               \E c, d \in 1..Len(cell) :
                   /\ Dist2(cell[c], Harvest[i][1]) < Dist2(cell[d], Harvest[i][1])
                   /\ PointZoneOf[i] = CellLabels[c]
                   /\ PointZoneOf[i] # CellLabels[d]
                   /\ \A e \in 1..Len(cell) :
                          Dist2(cell[c], Harvest[i][1]) <= Dist2(cell[e], Harvest[i][1])

(******************** properties: the result dict **************************)
ZoneTable == pipeOut.vals.zones_gdf
InputCrs == pipeOut.args[5]
GridReturned == PipeReturned /\ pipeOut.vals.grid # None
ReturnedGrid == pipeOut.vals.grid[1]

\* C16: a call either raises and returns nothing, or returns a complete and
\* consistent result: statistics has one entry per row of the zone table, in
\* the same order with the same zone_id and n_points; the grid is there exactly
\* when it was asked for, and its x, y, z and zone_labels have the same shape.
C16_CompleteBundle ==
    /\ pipeOut.op = "delineate_management_zones" => pipeOut.kind \in {"raise", "return"}
    /\ pipeOut.kind = "raise" => pipeOut.vals = <<>>
    /\ PipeReturned =>
           /\ Len(Statistics) = Len(ZoneTable.rows)
           /\ \A a \in 1..Len(Statistics) :
                  /\ Statistics[a].zone_id = ZoneTable.rows[a].zone_id
                  /\ Statistics[a].n_points = ZoneTable.rows[a].n_points
           /\ pipeOut.vals.n_zones >= Len(Statistics)
           /\ GridReturned <=> pipeOut.args[6]
    /\ GridReturned =>
           /\ ReturnedGrid.y.shape = ReturnedGrid.x.shape
           /\ ReturnedGrid.z.shape = ReturnedGrid.x.shape
           /\ ReturnedGrid.zone_labels.shape = ReturnedGrid.x.shape
           /\ \A f \in {"x", "y", "z", "zone_labels"} :
                  Len(ReturnedGrid[f].data)
                      = ReturnedGrid.x.shape[1] * ReturnedGrid.x.shape[2]

\* a returned result with several zone rows and a grid of several rows and
\* columns
C16_Witness ==
    /\ GridReturned
    /\ Len(ZoneTable.rows) >= 2
    /\ ReturnedGrid.x.shape[1] >= 2
    /\ ReturnedGrid.x.shape[2] >= 2

\* the points of the input frame that a zone row stands for
InputPointsOf(z) == {Harvest[i][1] : i \in PointsOf(z)}

\* C18: the returned zone table is in the caller's frame in both branches: its
\* frame is the frame of the input and every zone geometry spans the zone's
\* points as the caller gave them (reprojected back from the planar frame for
\* a geographic input, never reprojected for a planar one, whose grid is in
\* the input frame too).
C18_ZonesInCallerFrame ==
    PipeReturned =>
        /\ ZoneTable.crs = InputCrs
        /\ \A a \in 1..Len(ZoneTable.rows) :
               ZoneTable.rows[a].geometry = InputPointsOf(ZoneTable.rows[a].zone_id)
        /\ (GridReturned /\ ~IsGeographic(InputCrs)) => ReturnedGrid.crs = InputCrs
        /\ (GridReturned /\ IsGeographic(InputCrs)) =>
               /\ ~IsGeographic(ReturnedGrid.crs)
               /\ ReturnedGrid.crs \in Sites

\* a geographic input whose zones came back in longitude and latitude
C18_Witness ==
    /\ GridReturned
    /\ IsGeographic(InputCrs)
    /\ ReturnedGrid.crs = UtmCrs(23, "south")
    /\ Len(ZoneTable.rows) >= 2
    /\ ZoneTable.crs = Wgs84
    /\ \A a \in 1..Len(ZoneTable.rows) :
           \A p \in ZoneTable.rows[a].geometry : p[1] < 0 /\ p[2] < 0

\* a planar input whose zones were handed out as computed
PlanarKept ==
    /\ GridReturned
    /\ InputCrs = ProjectedCrs
    /\ Len(ZoneTable.rows) >= 2
    /\ ZoneTable.crs = ProjectedCrs

(************************** properties: ingestion **************************)
Validated == ingestOut.op = "validate"
Validator == ingestOut.args[1]
ValidatedRows == ingestOut.args[2].rows
Ingested == ingestOut.op = "ingest_harvest_data" /\ ingestOut.kind = "return"
HandedOn == ingestOut.vals[1].rows

InValidRange(r) ==
    /\ r # None
    /\ DefaultYieldMin <= r[1]
    /\ r[1] <= DefaultYieldMax

\* C19: every point collection that ingest_harvest_data hands on with
\* validate = True has at least min_points (100) points and every yield in it
\* lies in [0, 200], also after clipping and outlier cleaning.
C19_HandedOnValidated ==
    (Ingested /\ ingestOut.args[4]) =>
        /\ Len(HandedOn) >= DefaultMinPoints
        /\ \A i \in 1..Len(HandedOn) : InValidRange(HandedOn[i])

\* the value-range half alone
HandedOnInRange ==
    (Ingested /\ ingestOut.args[4]) =>
        \A i \in 1..Len(HandedOn) : InValidRange(HandedOn[i])

\* a collection is handed on only when the validation passed
HandedOnOnlyIfValid ==
    (Ingested /\ ingestOut.args[4]) => ingestOut.vals[3][1].valid

C20_OneShort ==
    /\ Validated
    /\ Len(ValidatedRows) + 1 = Validator.min_points
    /\ ingestOut.vals.valid = FALSE

\* with min_points rows or more no such error is reported
EnoughPointsNotReported ==
    (Validated /\ Len(ValidatedRows) >= Validator.min_points) =>
        \A e \in 1..Len(ingestOut.vals.errors) :
            ingestOut.vals.errors[e].text # "Insufficient points"

MissingYield == Validated /\ ~ingestOut.args[2].has_yield

\* C21: validate on a frame without a 'yield' column returns valid = False
\* and the first entry of errors reports "Missing 'yield' column", for every
\* row count and every min_points setting.
C21_MissingYieldFirst ==
    MissingYield =>
        /\ ingestOut.kind = "return"
        /\ ingestOut.vals.valid = FALSE
        /\ Len(ingestOut.vals.errors) > 0
        /\ ingestOut.vals.errors[1].text = "Missing 'yield' column"

\* the message is reported, at some place of the list, and nothing follows it
MissingYieldReportedLast ==
    MissingYield =>
        /\ ingestOut.vals.valid = FALSE
        /\ Len(ingestOut.vals.errors) > 0
        /\ ingestOut.vals.errors[Len(ingestOut.vals.errors)].text
               = "Missing 'yield' column"
        /\ ingestOut.vals.warnings = <<>>

\* it comes first when the frame has min_points rows or more
MissingYieldFirstWithEnoughRows ==
    (MissingYield /\ Len(ValidatedRows) >= Validator.min_points) =>
        ingestOut.vals.errors[1].text = "Missing 'yield' column"

\* the frame of the test: two rows, no 'yield' column, min_points = 100
MissingYieldTestFrame ==
    /\ MissingYield
    /\ Len(ValidatedRows) = 2
    /\ Validator.min_points = DefaultMinPoints
    /\ ingestOut.vals.errors[1].text = "Insufficient points"
    /\ ingestOut.vals.errors[2].text = "Missing 'yield' column"

\* numbers of rows of the validated frame
CountRows(Test(_)) == Len(SelectSeq(ValidatedRows, Test))
NoYield(r) == r = None
BelowMin(r) == r # None /\ r[1] < Validator.yield_min
AboveMax(r) == r # None /\ r[1] > Validator.yield_max

\* a warning with this text and this number is in the list
Warned(text, n) ==
    \E w \in 1..Len(ingestOut.vals.warnings) :
        ingestOut.vals.warnings[w].text = text /\ ingestOut.vals.warnings[w].n = n

\* the count is recorded under its stats key and warned about, or it is zero
\* and neither is there
Counted(stat, text, n) ==
    IF n > 0 THEN stat = Some(n) /\ Warned(text, n)
    ELSE stat = None
         /\ \A w \in 1..Len(ingestOut.vals.warnings) :
                ingestOut.vals.warnings[w].text # text

\* C22: in the result of validate, valid is True exactly when errors is
\* empty, which is exactly when the frame has at least min_points rows and a
\* 'yield' column; yields outside yield_range and missing yields never make
\* the result invalid: they add warnings and the counts outliers_low,
\* outliers_high and n_missing of stats.
C22_ValidIffNoErrors ==
    Validated =>
        /\ ingestOut.kind = "return"
        /\ ingestOut.vals.valid <=> (ingestOut.vals.errors = <<>>)
        /\ (ingestOut.vals.errors = <<>>) <=>
               /\ Len(ValidatedRows) >= Validator.min_points
               /\ ingestOut.args[2].has_yield
        /\ ingestOut.args[2].has_yield =>
               /\ Counted(ingestOut.vals.stats.n_missing,
                          "points with missing yield values", CountRows(NoYield))
               /\ Counted(ingestOut.vals.stats.outliers_low,
                          "points below minimum yield", CountRows(BelowMin))
               /\ Counted(ingestOut.vals.stats.outliers_high,
                          "points above maximum yield", CountRows(AboveMax))

\* a valid frame with yields below and above the range and a missing one
C22_Witness ==
    /\ Validated
    /\ ingestOut.vals.valid
    /\ Validator.min_points = 2
    /\ CountRows(NoYield) > 0
    /\ CountRows(BelowMin) > 0
    /\ CountRows(AboveMax) > 0
    /\ Len(ingestOut.vals.warnings) >= 3

\* an invalid frame whose yields are all present and within the range
InvalidWithoutWarnings ==
    /\ Validated
    /\ ~ingestOut.vals.valid
    /\ ingestOut.args[2].has_yield
    /\ ingestOut.args[2].crs # None
    /\ Len(ValidatedRows) > 0
    /\ ingestOut.vals.warnings = <<>>

CsvRead == ingestOut.op = "read_csv"
CsvColumns == {ingestOut.args[1].columns[c] : c \in 1..Len(ingestOut.args[1].columns)}
CsvRequired == {ingestOut.args[2], ingestOut.args[3], ingestOut.args[4]}

\* C23: read_csv raises ValueError reporting 'Missing columns' whenever one
\* of the configured latitude, longitude and yield columns is absent from the
\* file, and returns no frame then; otherwise it returns one point per CSV
\* row with exactly the columns geometry and yield, the yield column being
\* the configured one, renamed to 'yield' when it had another name.
C23_ReadCsvColumns ==
    CsvRead =>
        IF ~(CsvRequired \subseteq CsvColumns)
        THEN /\ ingestOut.kind = "raise"
             /\ ingestOut.cls = "ValueError"
             /\ ingestOut.msg = "Missing columns"
        ELSE /\ ingestOut.kind = "return"
             /\ ingestOut.vals.n = ingestOut.args[1].n
             /\ ingestOut.vals.columns =
                    <<[name |-> "geometry",
                       from |-> <<ingestOut.args[3], ingestOut.args[2]>>],
                      [name |-> "yield", from |-> <<ingestOut.args[4]>>]>>

\* the error half alone: raised exactly when a configured column is absent,
\* naming the absent ones
MissingColumnsRaised ==
    CsvRead =>
        /\ (ingestOut.kind = "raise") <=> ~(CsvRequired \subseteq CsvColumns)
        /\ ingestOut.kind = "raise" =>
               /\ ingestOut.cls = "ValueError"
               /\ ingestOut.msg = "Missing columns"
               /\ {ingestOut.vals[m] : m \in 1..Len(ingestOut.vals)}
                      = CsvRequired \ CsvColumns

\* the frame is as claimed unless the yield column is renamed in a file that
\* has a 'yield' column of its own
ReadCsvColumnsWithoutOwnYield ==
    (CsvRead /\ ingestOut.kind = "return"
        /\ (ingestOut.args[4] = "yield" \/ "yield" \notin CsvColumns)) =>
        /\ ingestOut.vals.n = ingestOut.args[1].n
        /\ ingestOut.vals.columns =
               <<[name |-> "geometry", from |-> <<ingestOut.args[3], ingestOut.args[2]>>],
                 [name |-> "yield", from |-> <<ingestOut.args[4]>>]>>

\* the frame of the test with custom column names
ReadCsvCustomColumns ==
    /\ CsvRead
    /\ ingestOut.args = <<[columns |-> <<"lat", "lon", "productivity">>, n |-> 2],
                          "lat", "lon", "productivity">>
    /\ ingestOut.kind = "return"
    /\ ingestOut.vals.n = 2
    /\ Len(ingestOut.vals.columns) = 2

\* the frame that enters the cleaning: the rows read, within the boundary
\* when there is one
Cleaned == Ingested /\ ingestOut.args[5]
Uncleaned ==
    IF ingestOut.args[2] = None THEN ingestOut.args[1].rows
    ELSE Clip(ingestOut.args[1].rows, ingestOut.args[2][1])

\* 4 Q1 and 4 Q3 of the yields of that frame, <<>> when it has none
Quartile4(q) == Quantile4(DropNa(Uncleaned), q)

\* the yield lies in [Q1 - 3 IQR, Q3 + 3 IQR]; a missing yield lies in no
\* interval
WithinFences(r) ==
    /\ r # None
    /\ Quartile4(1) # None
    /\ 4 * Quartile4(1)[1] - 12 * (Quartile4(3)[1] - Quartile4(1)[1]) <= 16 * r[1]
    /\ 16 * r[1] <= 4 * Quartile4(3)[1] + 12 * (Quartile4(3)[1] - Quartile4(1)[1])

\* the rows of a at the places sel, in order
IsSubSeqAt(sel, a, b) ==
    /\ Len(sel) = Len(b)
    /\ \A i \in 1..Len(sel) : sel[i] \in 1..Len(a) /\ a[sel[i]] = b[i]
    /\ \A i \in 1..(Len(sel) - 1) : sel[i] < sel[i + 1]

KeptOnTheFence ==
    /\ Cleaned
    /\ Len(HandedOn) > 0
    /\ Quartile4(1) = Quartile4(3)
    /\ Len(HandedOn) < Len(Uncleaned)

\* without cleaning the frame is handed on as it entered
UncleanedHandedOn ==
    (Ingested /\ ~ingestOut.args[5]) => HandedOn = Uncleaned

IngestCalled == ingestOut.op = "ingest_harvest_data"

\* the suffix spells the extension, in capital or small letters
Spells(suffix, letters) ==
    /\ Len(suffix) = Len(letters)
    /\ \A i \in 1..Len(letters) : suffix[i] \in letters[i]

IsCsv(suffix) == Spells(suffix, <<{"."}, {"c", "C"}, {"s", "S"}, {"v", "V"}>>)
IsShp(suffix) == Spells(suffix, <<{"."}, {"s", "S"}, {"h", "H"}, {"p", "P"}>>)

\* no file is read and ValueError is raised
RejectedUnread ==
    /\ ingestOut.kind = "raise"
    /\ ingestOut.cls = "ValueError"
    /\ ingestOut.reads = <<>>

\* C25: with file_type='auto' the reader follows the file extension, whatever
\* the case of its letters: '.csv' is read by the CSV reader, '.shp' by the
\* shapefile reader, and any other extension raises ValueError before any
\* file is read; an explicit file_type other than 'csv', 'shapefile' and
\* 'auto' raises ValueError too and nothing is returned.
C25_ReaderByExtension ==
    IngestCalled =>
        \E suffix \in {ingestOut.args[1].suffix}, file_type \in {ingestOut.args[3]} :
            /\ (file_type = "auto" /\ IsCsv(suffix)) =>
                   ingestOut.reads # <<>> /\ ingestOut.reads[1] = "csv"
            /\ (file_type = "auto" /\ IsShp(suffix)) =>
                   ingestOut.reads # <<>> /\ ingestOut.reads[1] = "shapefile"
            /\ (file_type = "auto" /\ ~IsCsv(suffix) /\ ~IsShp(suffix)) =>
                   RejectedUnread /\ ingestOut.msg = "Unknown file extension"
            /\ file_type \notin {"csv", "shapefile", "auto"} =>
                   RejectedUnread /\ ingestOut.msg = "Unsupported file type"

\* a file with the extension in capital letters, read by the CSV reader and
\* handed on
C25_Witness ==
    /\ Ingested
    /\ ingestOut.args[3] = "auto"
    /\ ingestOut.args[1].suffix = <<".", "C", "S", "V">>
    /\ ingestOut.reads = <<"csv">>
    /\ Len(HandedOn) > 0

\* the other cases of the claim happen too
ShapefileByExtension ==
    /\ Ingested
    /\ ingestOut.args[3] = "auto"
    /\ ingestOut.args[1].suffix = <<".", "S", "h", "p">>
    /\ ingestOut.reads[1] = "shapefile"

UnknownExtensionRejected ==
    /\ IngestCalled
    /\ ingestOut.args[3] = "auto"
    /\ ingestOut.msg = "Unknown file extension"

UnsupportedTypeRejected ==
    /\ IngestCalled
    /\ ingestOut.args[1].suffix = <<".", "c", "s", "v">>
    /\ ingestOut.msg = "Unsupported file type"

\* an explicit file_type chooses the reader whatever the extension is
ExplicitTypeOverridesExtension ==
    (IngestCalled /\ ingestOut.args[3] \in {"csv", "shapefile"}) =>
        ingestOut.reads # <<>> /\ ingestOut.reads[1] = ingestOut.args[3]

(****************************** properties: api ****************************)
Answered == apiOut.op = "get_recommendations"
Requested == apiOut.args[1]

\* the part of the requested identifier before its first "-"
RequestedKey ==
    CHOOSE key \in {SubSeq(Requested, 1, n) : n \in 0..Len(Requested)} :
        /\ \A i \in 1..Len(key) : key[i] # "-"
        /\ Len(key) = Len(Requested) \/ Requested[Len(key) + 1] = "-"

\* the answer carries the record: every value of it, an optional key of
\* financial_impact that the record does not hold being null
Carries(body, record) ==
    /\ DOMAIN body = DOMAIN record
    /\ \A key \in DOMAIN record \ {"zones"} : body[key] = record[key]
    /\ Len(body.zones) = Len(record.zones)
    /\ \A z \in 1..Len(record.zones) :
          /\ DOMAIN body.zones[z] = DOMAIN record.zones[z]
          /\ \A key \in DOMAIN record.zones[z] \ {"financial_impact"} :
                body.zones[z][key] = record.zones[z][key]
          /\ DOMAIN record.zones[z].financial_impact
                \subseteq DOMAIN body.zones[z].financial_impact
          /\ \A key \in DOMAIN body.zones[z].financial_impact :
                IF key \in DOMAIN record.zones[z].financial_impact
                THEN body.zones[z].financial_impact[key]
                         = Some(record.zones[z].financial_impact[key])
                ELSE body.zones[z].financial_impact[key] = None

\* 404 'Field not found' exactly when the requested key is not stored, the
\* stored record otherwise
FoundIffStored ==
    /\ (apiOut.status = 404) <=> (RequestedKey \notin DOMAIN apiOut.before)
    /\ apiOut.status = 404 => apiOut.body.error.text = "Field not found"
    /\ apiOut.status # 404 =>
           /\ apiOut.status = 200
           /\ Carries(apiOut.body, MOCK_FIELDS[RequestedKey])

\* the stored fields are those before the request, with every value but the
\* analysis_date of the requested field
StoreKept ==
    /\ DOMAIN MOCK_FIELDS = DOMAIN apiOut.before
    /\ \A key \in DOMAIN MOCK_FIELDS :
          /\ [MOCK_FIELDS[key] EXCEPT !.analysis_date = 0]
                 = [apiOut.before[key] EXCEPT !.analysis_date = 0]
          /\ key # RequestedKey =>
                 MOCK_FIELDS[key].analysis_date = apiOut.before[key].analysis_date

\* C26 as stated: get_recommendations answers 404 'Field not found' exactly
\* when the part of field_id before its first '-' (the whole field_id when it
\* has none) is not a key of the field store, and returns the stored record
\* of that field otherwise; the set of stored fields and every stored value
\* but the requested field's analysis_date stay as they were.
C26_NotFoundIffNotStored ==
    Answered => (FoundIffStored /\ StoreKept)

\* C26 amended: the same for a field_id of 1 to 50 characters; an empty
\* field_id and one of more than 50 characters are answered 422 by the
\* validation of the query, whether or not the key is stored, and leave the
\* store as it was.
C26_NotFoundIffNotStoredValidId ==
    Answered =>
        /\ IF Len(Requested) \in MinLength..MaxLength
           THEN FoundIffStored
           ELSE apiOut.status = 422 /\ MOCK_FIELDS = apiOut.before
        /\ StoreKept

\* a full identifier is answered with the record of its key, on a day later
\* than the dates stored: the date of that field moves, the other's stays
C26_Witness ==
    /\ Answered
    /\ Requested = F001 \o <<"-", "U", "G", "-", "P">>
    /\ apiOut.status = 200
    /\ apiOut.body.analysis_date = apiOut.args[2]
    /\ apiOut.before[F001].analysis_date < apiOut.args[2]
    /\ MOCK_FIELDS[F002].analysis_date < apiOut.args[2]
    /\ apiOut.body.zones[2].financial_impact["payback_months"] = None

\* the other answers happen: an unknown key of valid length, an identifier
\* of a stored key that is too long, and the longest identifier accepted
UnknownKeyNotFound ==
    /\ Answered
    /\ Requested = <<"-">> \o F001
    /\ apiOut.status = 404

TooLongRejected ==
    /\ Answered
    /\ Len(Requested) = MaxLength + 1
    /\ RequestedKey = F002
    /\ apiOut.status = 422

LongestAccepted ==
    /\ Answered
    /\ Len(Requested) = MaxLength
    /\ apiOut.status = 200

\* after a second request both dates have moved
BothDatesMoved ==
    /\ Answered
    /\ apiOut.before[F001].analysis_date = MaxDay
    /\ MOCK_FIELDS[F002].analysis_date = MaxDay
    /\ apiOut.before[F002].analysis_date = 0

(************************** properties: UTM zone ***************************)
\* a call on points in longitude and latitude, at least one
Geographic == pipeOut.op = "delineate_management_zones"
                  /\ IsGeographic(pipeOut.args[5]) /\ Len(pipeOut.args[1]) > 0

\* the distinct points of the call, their number and the sums of their
\* longitudes and latitudes: the centroid is <<SumLon, SumLat>> / Points
PointSet == {pipeOut.args[1][i][1] : i \in 1..Len(pipeOut.args[1])}
Points == Cardinality(PointSet)
RECURSIVE SumOf(_, _)
SumOf(S, axis) ==
    IF S = {} THEN 0
    ELSE LET p == CHOOSE p \in S : TRUE IN p[axis] + SumOf(S \ {p}, axis)
SumLon == SumOf(PointSet, 1)
SumLat == SumOf(PointSet, 2)

\* the frame the code chooses for these points
Chosen == UtmOfCentroid(pipeOut.args[1])

\* the zone is floor((centroid_lon + 180) / 6) + 1 and the hemisphere north
\* exactly when centroid_lat >= 0
ZoneOfCentroid ==
    /\ 6 * UnitsPerDegree * Points * (Chosen.zone - 1)
           <= SumLon + 180 * UnitsPerDegree * Points
    /\ SumLon + 180 * UnitsPerDegree * Points
           < 6 * UnitsPerDegree * Points * Chosen.zone
    /\ (Chosen.hemisphere = "north") <=> (SumLat >= 0)
    /\ Chosen.hemisphere \in {"north", "south"}

\* C27: the planar frame chosen for geographic input depends only on the
\* centroid of the points: the UTM zone is floor((centroid_lon + 180) / 6) + 1
\* and the hemisphere is north exactly when centroid_lat >= 0; for every
\* centroid longitude in [-180, 180] the zone is a UTM zone, in 1..60.
C27_UtmZoneOfCentroid ==
    (Geographic /\ 0 - 180 * UnitsPerDegree * Points <= SumLon
                /\ SumLon <= 180 * UnitsPerDegree * Points) =>
        /\ ZoneOfCentroid
        /\ Chosen.zone \in 1..60

\* for a centroid west of 180 E the zone is one of the sixty
UtmZoneValidWestOf180 ==
    (Geographic /\ 0 - 180 * UnitsPerDegree * Points <= SumLon
                /\ SumLon < 180 * UnitsPerDegree * Points) =>
        /\ ZoneOfCentroid
        /\ Chosen.zone \in 1..60

\* the formula of the zone holds on the meridian 180 E as well: zone 61
ZoneOfCentroidEverywhere == Geographic => ZoneOfCentroid

\* points on 180 E: zone 61 is chosen and the call raises
On180East ==
    /\ Geographic
    /\ SumLon = 180 * UnitsPerDegree * Points
    /\ Chosen.zone = 61
    /\ pipeOut.kind = "raise"
    /\ pipeOut.cls = "CRSError"

\* points on 180 W: zone 1
On180West ==
    /\ Geographic
    /\ SumLon = 0 - 180 * UnitsPerDegree * Points
    /\ Chosen.zone = 1

\* points just east of 180 W: zone 1, and the call returns
EastOf180West ==
    /\ Geographic
    /\ SumLon < 0
    /\ Chosen.zone = 1
    /\ pipeOut.kind = "return"

\* points just west of 180 E: zone 60, and the call returns
WestOf180East ==
    /\ Geographic
    /\ SumLon > 0
    /\ Chosen.zone = 60
    /\ pipeOut.kind = "return"

\* two distinct points in the south, in zone 23
TwoPointsSouth ==
    /\ Geographic
    /\ Points = 2
    /\ Chosen = UtmCrs(23, "south")
    /\ pipeOut.kind = "return"

(********************* properties: the neighbours of IDW *******************)
PredictCalled == idwOut.op = "predict" /\ ParallelFit

\* the number of neighbours asked for: min(max_neighbors, n)
NeighbourCount == Min2(idw.max_neighbors, Len(FittedPoints))

\* the sets of NeighbourCount fitted points nearest to q
NearestSets(q) ==
    {N \in SUBSET (1..Len(FittedPoints)) :
        /\ Cardinality(N) = NeighbourCount
        /\ \A i \in N : \A l \in (1..Len(FittedPoints)) \ N :
               Dist2(FittedPoints[i], q) <= Dist2(FittedPoints[l], q)}

\* max(d_i, 1e-10)^power in units of epsilon^power
ClampedPow(i, q) ==
    IPow(IF Dist2(FittedPoints[i], q) = 0 THEN 1
         ELSE Dist2(FittedPoints[i], q) * EpsInvSq, idw.power \div 2)

RECURSIVE LcmOf(_)
LcmOf(S) == IF S = {} THEN 1
            ELSE LET x == CHOOSE x \in S : TRUE IN LCM(x, LcmOf(S \ {x}))

\* the weight 1 / max(d_i, 1e-10)^power of point i, as a positive integer
\* over the denominator common to the points of N
WeightIn(i, N, q) == LcmOf({ClampedPow(l, q) : l \in N}) \div ClampedPow(i, q)

RECURSIVE WeightSum(_, _, _)
WeightSum(S, N, q) ==
    IF S = {} THEN 0
    ELSE LET i == CHOOSE i \in S : TRUE IN WeightIn(i, N, q) + WeightSum(S \ {i}, N, q)

RECURSIVE WeightedSum(_, _, _)
WeightedSum(S, N, q) ==
    IF S = {} THEN 0
    ELSE LET i == CHOOSE i \in S : TRUE
         IN  WeightIn(i, N, q) * FittedValues[i] + WeightedSum(S \ {i}, N, q)

\* the average of the values of N with the weights normalized to sum to 1
AverageOver(N, q) == Some(Fixed(WeightedSum(N, N, q), WeightSum(N, N, q)))

\* the result at query point j is the normalized average over a set of
\* NeighbourCount nearest points, and of one point alone its value
OfNeighbours(j) ==
    /\ j <= Len(idwOut.vals)
    /\ \E N \in NearestSets(Query[j]) :
           /\ idwOut.vals[j] = AverageOver(N, Query[j])
           /\ \A i \in N : WeightIn(i, N, Query[j]) > 0
           /\ \A i \in N : N = {i} => idwOut.vals[j] = Some(Quantum * FittedValues[i])

\* C28: for every query point predict uses exactly min(max_neighbors, n)
\* fitted points, the nearest ones, with weights 1 / max(d_i, 1e-10)^power
\* that are non-negative and normalized to sum to 1 over that set; the other
\* fitted points have no influence, and with n = 1 or max_neighbors = 1 the
\* result is the value of the single nearest point.
C28_NearestNeighbours ==
    PredictCalled =>
        /\ idwOut.kind = "return"
        /\ Len(idwOut.vals) = Len(Query)
        /\ \A j \in 1..Len(Query) : OfNeighbours(j)

\* What holds of the code: the same when the distance matrix has one row per
\* query point, which is when more than one neighbour is used or one point
\* is queried.
NearestNeighboursWithRowPerQuery ==
    (PredictCalled /\ (NeighbourCount >= 2 \/ Len(Query) = 1)) =>
        /\ idwOut.kind = "return"
        /\ Len(idwOut.vals) = Len(Query)
        /\ \A j \in 1..Len(Query) : OfNeighbours(j)

\* one neighbour of two fitted points for one query point: the farther point
\* has no influence
FartherPointIgnored ==
    /\ PredictCalled
    /\ Len(FittedPoints) = 2
    /\ NeighbourCount = 1
    /\ Len(Query) = 1
    /\ FittedValues[1] # FittedValues[2]
    /\ Dist2(FittedPoints[1], Query[1]) < Dist2(FittedPoints[2], Query[1])
    /\ idwOut.vals = <<Some(Quantum * FittedValues[1])>>

\* two neighbours at different distances, weighted
TwoNeighboursWeighted ==
    /\ PredictCalled
    /\ NeighbourCount = 2
    /\ idw.power = 2
    /\ Len(Query) = 2
    /\ Len(idwOut.vals) = 2
    /\ FittedValues[1] # FittedValues[2]
    /\ 0 < Dist2(FittedPoints[1], Query[1])
    /\ Dist2(FittedPoints[1], Query[1]) < Dist2(FittedPoints[2], Query[1])

\* one neighbour for two query points: one value comes back for both, the
\* average of the two nearest values
OneValueForTwoQueries ==
    /\ PredictCalled
    /\ NeighbourCount = 1
    /\ Len(Query) = 2
    /\ idwOut.kind = "return"
    /\ Len(idwOut.vals) = 1
    /\ idwOut.vals[1] \notin {Some(Quantum * FittedValues[i]) : i \in 1..Len(FittedValues)}

(************************ properties: the zone table ***********************)
\* the number a decimal numeral without sign stands for
RECURSIVE NumberOf(_)
NumberOf(str) ==
    IF str = <<>> THEN 0
    ELSE 10 * NumberOf(SubSeq(str, 1, Len(str) - 1))
             + (CHOOSE d \in 0..9 :
                    <<"0", "1", "2", "3", "4", "5", "6", "7", "8", "9">>[d + 1] = str[Len(str)])

IsNumeral(str) ==
    /\ Len(str) >= 1
    /\ \A c \in 1..Len(str) : str[c] \in {"0", "1", "2", "3", "4", "5", "6", "7", "8", "9"}
    /\ Len(str) > 1 => str[1] # "0"

\* 'Zone ' followed by number
Named(name, number) ==
    /\ Len(name) > 5
    /\ SubSeq(name, 1, 5) = <<"Z", "o", "n", "e", " ">>
    /\ IsNumeral(SubSeq(name, 6, Len(name)))
    /\ NumberOf(SubSeq(name, 6, Len(name))) = number

ReportedZones == pipeOut.vals.n_zones

\* C29: in every returned bundle the zone table has at most n_zones records,
\* whose zone_id are pairwise distinct, strictly ascending in table order and
\* inside [0, n_zones); there are n_zones records exactly when every label in
\* [0, n_zones) received a point; each zone_name is 'Zone ' followed by
\* zone_id + 1.
C29_ZoneTable ==
    PipeReturned =>
        /\ Len(ZoneTable.rows) <= ReportedZones
        /\ \A a, b \in 1..Len(ZoneTable.rows) :
               a < b => ZoneTable.rows[a].zone_id < ZoneTable.rows[b].zone_id
        /\ \A a \in 1..Len(ZoneTable.rows) :
               /\ ZoneTable.rows[a].zone_id \in 0..(ReportedZones - 1)
               /\ Named(ZoneTable.rows[a].zone_name, ZoneTable.rows[a].zone_id + 1)
        /\ (Len(ZoneTable.rows) = ReportedZones)
               <=> (\A z \in 0..(ReportedZones - 1) : \E i \in 1..Len(PointZoneOf) :
                        PointZoneOf[i] = z)

\* a table with a gap: three zones reported, records for two of them, the
\* second named after a zone_id above its place in the table
C29_Witness ==
    /\ PipeReturned
    /\ ReportedZones = 3
    /\ Len(ZoneTable.rows) = 2
    /\ ZoneTable.rows[2].zone_id = 2
    /\ ZoneTable.rows[2].zone_name = <<"Z", "o", "n", "e", " ", "3">>

\* a full table: as many records as zones
FullZoneTable ==
    /\ PipeReturned
    /\ ReportedZones >= 2
    /\ Len(ZoneTable.rows) = ReportedZones

(*********************** properties: reused instances **********************)
\* the interpolator and the delineator as their constructors leave them, with
\* the configuration of the instances in use
FreshIDW == IDWNew(idw.power, idw.max_neighbors)
FreshZD == ZDNew(zd.n_zones, zd.min_zones, zd.max_zones)

Outcome(call) == <<call.kind, call.cls, call.msg, call.vals>>
OutcomeOf(out) == <<out.kind, out.cls, out.msg, out.vals>>

\* a fit leaves the interpolator as it leaves a new one
FitAsOnFresh ==
    idwOut'.op = "fit" =>
        idw' = IDWFit(FreshIDW, idwOut'.args[1], idwOut'.args[2])

\* predict leaves the interpolator alone and answers as a new interpolator
\* does that was fitted once, with what the most recent fit left
PredictOfLastFit ==
    (idwOut'.op = "predict" /\ idwOut'.fitted) =>
        /\ idw' = idw
        /\ Outcome(idwOut')
               = OutcomeOf(IDWPredict(IDWFit(FreshIDW, idw.tree[1], idw.values[1]),
                                      idwOut'.args[1]))

\* fit_predict ends as it does on a new delineator of the same configuration,
\* with the same labels and the same optimal_n_zones when it returns
FitPredictAsOnFresh ==
    zdCalls' = zdCalls + 1 =>
        \E fresh \in {ZDFitPredict(FreshZD, zdOut'.args[1], npRandom)} :
            /\ Outcome(zdOut') = OutcomeOf(fresh.out)
            /\ zdOut'.kind = "return" =>
                   /\ zd'.optimal_n_zones = fresh.obj.optimal_n_zones
                   /\ zd' = fresh.obj

\* C30: no state carries over between calls on the same instance: after any
\* sequence of fit calls predict depends only on the points and values of the
\* most recent fit, and after any sequence of fit_predict calls the labels
\* and optimal_n_zones of the last call are those a freshly constructed
\* ZoneDelineator of the same configuration returns for that input.
C30_NoCarryOver ==
    [][FitAsOnFresh /\ PredictOfLastFit /\ FitPredictAsOnFresh]_vars

\* both instances were used twice: the second fit was of other points and
\* values than the first would leave appended, the delineator had a model
\* when it was called, and both calls returned
C30_Witness ==
    /\ idwFits = 2
    /\ idwOut.op = "predict"
    /\ idwOut.kind = "return"
    /\ Len(idw.tree[1]) = 1
    /\ zdCalls = 2
    /\ zdOut.fitted
    /\ zdOut.kind = "return"
    /\ Len(zdOut.args[1]) = 4

\* a call that raised after one that returned: the delineator keeps the model
\* and the optimal_n_zones of the earlier call
KeptAfterRaise ==
    /\ zdCalls = 2
    /\ zdOut.kind = "raise"
    /\ zd.model # None
    /\ zd.optimal_n_zones # None

====
